---- MODULE Spec2Model ----
(***************************************************************************)
(* Footnote subsystem of quickmark: the FootnoteMap root extension, the    *)
(* block and inline rules that feed it, the inline-footnote scanner and    *)
(* the collection pass that moves referenced definitions to the end of     *)
(* the document.                                                           *)
(***************************************************************************)
EXTENDS Integers, Sequences, FiniteSets, TLC

VARIABLES
    root_ext,   \* Root.ext: type name -> state value (type-keyed store)
    ret,        \* return value of the last FootnoteMap operation / rule
    op,         \* the last operation, <<name, argument>>
    issued,     \* history: the definition and reference ids handed out so far
    nodes,      \* the AST nodes: node id -> payload
    kids,       \* node id -> Node.children (sequence of node ids)
    phase,      \* position of the parse: "block", "inline", "core", "done"
                \* ("api": the FootnoteMap is driven directly, "scan": one rule call)
    open,       \* chain of current nodes (state.node), innermost last
    frames,     \* locals (def_id, ref_id) of the suspended InlineFootnoteScanner.run calls
    cur,        \* number of paragraphs handed to the inline tokenizer so far
    state,      \* InlineState of a rule call: src (bytes), pos, pos_max
    aborted,    \* the rule call panicked
    LAST_PANIC, \* the process-wide record of the most recent panic message
    threads,    \* each thread: its position in render and what its calls returned
    parser,     \* the MDParser: installed rules and enabled_plugin_names
    slugger,    \* the Slugger: the set of slugs seen so far
    returned    \* history: the slugs returned since the Slugger was new or reset

treevars == <<nodes, kids, phase, open, frames, cur>>
scanvars == <<state, aborted>>
slugvars == <<slugger, returned>>
libvars == <<LAST_PANIC, threads, parser, slugvars>>
vars == <<root_ext, ret, op, issued, nodes, kids, phase, open, frames, cur,
          state, aborted, LAST_PANIC, threads, parser, slugger, returned>>

\* ---------------------------------------------------------------- bounds
Labels == {"a", "b"}
MaxIds == 3
MaxBlocks == 3
MaxTokens == 2

\* ------------------------------------------------------------ FootnoteMap
\* Option::None; Some(x) is the tuple <<x>>, Some((d, r)) the tuple <<d, r>>
None == <<>>

EmptyFn == [x \in {} |-> 0]

\* #[derive(Default)] FootnoteMap
FootnoteMapDefault ==
    [def_counter  |-> 0,
     ref_counter  |-> 0,
     label_to_def |-> EmptyFn,
     def_to_refs  |-> EmptyFn]

\* HashMap::insert: add the key or overwrite its value
Insert(f, k, v) == [x \in (DOMAIN f) \cup {k} |-> IF x = k THEN v ELSE f[x]]

\* add_def without the duplicate-label test: a later definition takes the label
add_def_overwrite(m, label) ==
    LET c == m.def_counter + 1 IN
    [map |-> [m EXCEPT !.def_counter = c,
                       !.label_to_def = Insert(m.label_to_def, label, c)],
     ret |-> <<c>>]

\* FootnoteMap::add_def
add_def(m, label) ==
    IF label \in DOMAIN m.label_to_def
    THEN [map |-> m, ret |-> None]
    ELSE LET c == m.def_counter + 1 IN
         [map |-> [m EXCEPT !.def_counter = c,
                            !.label_to_def = Insert(m.label_to_def, label, c)],
          ret |-> <<c>>]

\* add_ref that defers an unresolved reference: it allocates a reference id
\* for a label without definition and records it under definition id 0
add_ref_deferred(m, label) ==
    LET def_id == IF label \in DOMAIN m.label_to_def THEN m.label_to_def[label] ELSE 0
        r == m.ref_counter + 1
        refs == IF def_id \in DOMAIN m.def_to_refs
                THEN Append(m.def_to_refs[def_id], r)
                ELSE <<r>>
    IN [map |-> [m EXCEPT !.ref_counter = r,
                          !.def_to_refs = Insert(m.def_to_refs, def_id, refs)],
        ret |-> <<def_id, r>>]

\* add_ref that resolves every label to the latest definition
add_ref_latest(m, label) ==
    IF label \in DOMAIN m.label_to_def
    THEN LET def_id == m.def_counter
             r == m.ref_counter + 1
             refs == IF def_id \in DOMAIN m.def_to_refs
                     THEN Append(m.def_to_refs[def_id], r)
                     ELSE <<r>>
         IN [map |-> [m EXCEPT !.ref_counter = r,
                               !.def_to_refs = Insert(m.def_to_refs, def_id, refs)],
             ret |-> <<def_id, r>>]
    ELSE [map |-> m, ret |-> None]

\* FootnoteMap::add_ref
add_ref(m, label) ==
    IF label \in DOMAIN m.label_to_def
    THEN LET def_id == m.label_to_def[label]
             r == m.ref_counter + 1
             refs == IF def_id \in DOMAIN m.def_to_refs
                     THEN Append(m.def_to_refs[def_id], r)
                     ELSE <<r>>
         IN [map |-> [m EXCEPT !.ref_counter = r,
                               !.def_to_refs = Insert(m.def_to_refs, def_id, refs)],
             ret |-> <<def_id, r>>]
    ELSE [map |-> m, ret |-> None]

\* add_inline_def that reuses the current definition id instead of a new one
add_inline_def_stale(m) ==
    LET d == m.def_counter
        r == m.ref_counter + 1
    IN [map |-> [m EXCEPT !.ref_counter = r,
                          !.def_to_refs = Insert(m.def_to_refs, d, <<r>>)],
        ret |-> <<d, r>>]

\* add_inline_def that hands out the current reference id again
add_inline_def_same_ref(m) ==
    LET d == m.def_counter + 1
        r == m.ref_counter
    IN [map |-> [m EXCEPT !.def_counter = d,
                          !.def_to_refs = Insert(m.def_to_refs, d, <<r>>)],
        ret |-> <<d, r>>]

\* FootnoteMap::add_inline_def
add_inline_def(m) ==
    LET d == m.def_counter + 1
        r == m.ref_counter + 1
    IN [map |-> [m EXCEPT !.def_counter = d,
                          !.ref_counter = r,
                          !.def_to_refs = Insert(m.def_to_refs, d, <<r>>)],
        ret |-> <<d, r>>]

\* FootnoteMap::referenced_by
referenced_by(m, def_id) ==
    IF def_id \in DOMAIN m.def_to_refs THEN m.def_to_refs[def_id] ELSE <<>>

\* ------------------------------------------------------ extension state
\* RootExtSet::get_or_insert_default::<FootnoteMap>
get_or_insert_default(ext) ==
    IF "FootnoteMap" \in DOMAIN ext THEN ext ELSE Insert(ext, "FootnoteMap", FootnoteMapDefault)

\* RootExtSet::default (what std::mem::take leaves behind)
ExtDefault == EmptyFn

\* the state another plugin keeps in the root extension set
OtherState == [t \in {"OtherExt"} |-> 7]

NoIssued == [defs |-> {}, refs |-> {}]

\* ---------------------------------------------------------------- nodes
Top(s) == s[Len(s)]
Pop(s) == SubSeq(s, 1, Len(s) - 1)

RootId == 1

\* Node::new(payload): label "" is None, def_id 0 is None
NewNode(kind, label, def_id, ref_id, inline) ==
    [kind |-> kind, label |-> label, def_id |-> def_id, ref_id |-> ref_id,
     inline |-> inline]

\* no inline rule call is in progress
NoState == [src |-> <<>>, pos |-> 0, pos_max |-> 0]

\* MDParser::new("zero"): no rule, no extension state, no plugin name
NoParser == [rules |-> {}, ext |-> {}, enabled_plugin_names |-> <<>>]

\* Slugger::default
SluggerDefault == [slugs |-> {}]

\* no render call has been made, no plugin enabled and no slug made
LibIdle ==
    /\ LAST_PANIC = None
    /\ threads = <<>>
    /\ parser = NoParser
    /\ slugger = SluggerDefault
    /\ returned = <<>>

\* ------------------------------------------- FootnoteMap as a state machine
FM == root_ext["FootnoteMap"]

TreeIdle ==
    /\ nodes = <<NewNode("Root", "", 0, 0, FALSE)>>
    /\ kids = << <<>> >>
    /\ phase = "api"
    /\ open = <<>>
    /\ frames = <<>>
    /\ cur = 0
    /\ state = NoState
    /\ aborted = FALSE

MapInit ==
    /\ root_ext = [t \in {"FootnoteMap"} |-> FootnoteMapDefault]
    /\ ret = None
    /\ op = <<"new", "">>
    /\ issued = NoIssued
    /\ TreeIdle
    /\ LibIdle

MapAddDef(label) ==
    /\ phase = "api"
    /\ FM.def_counter < MaxIds
    /\ root_ext' = [root_ext EXCEPT !["FootnoteMap"] = add_def(FM, label).map]
    /\ ret' = add_def(FM, label).ret
    /\ op' = <<"add_def", label>>
    /\ issued' = [issued EXCEPT !.defs = @ \cup {ret'[i] : i \in DOMAIN ret'}]
    /\ UNCHANGED <<treevars, scanvars>>
    /\ UNCHANGED libvars

MapAddRef(label) ==
    /\ phase = "api"
    /\ FM.ref_counter < MaxIds
    /\ root_ext' = [root_ext EXCEPT !["FootnoteMap"] = add_ref(FM, label).map]
    /\ ret' = add_ref(FM, label).ret
    /\ op' = <<"add_ref", label>>
    /\ issued' = [issued EXCEPT !.refs = @ \cup {ret'[i] : i \in DOMAIN ret' \ {1}}]
    /\ UNCHANGED <<treevars, scanvars>>
    /\ UNCHANGED libvars

MapAddInlineDef ==
    /\ phase = "api"
    /\ FM.def_counter < MaxIds
    /\ FM.ref_counter < MaxIds
    /\ root_ext' = [root_ext EXCEPT !["FootnoteMap"] = add_inline_def(FM).map]
    /\ ret' = add_inline_def(FM).ret
    /\ op' = <<"add_inline_def", "">>
    /\ issued' = [defs |-> issued.defs \cup {ret'[1]}, refs |-> issued.refs \cup {ret'[2]}]
    /\ UNCHANGED <<treevars, scanvars>>
    /\ UNCHANGED libvars

MapNext ==
    \/ \E label \in Labels : MapAddDef(label)
    \/ \E label \in Labels : MapAddRef(label)
    \/ MapAddInlineDef

SpecMap == MapInit /\ [][MapNext]_vars

\* ------------------------------------------------------------ block phase
\* the state at the start of MarkdownIt::parse: a Root node, a root extension
\* set that holds at most the state of other plugins
Init ==
    /\ root_ext \in {ExtDefault, OtherState}
    /\ ret = None
    /\ op = <<"parse", "">>
    /\ issued = NoIssued
    /\ nodes = <<NewNode("Root", "", 0, 0, FALSE)>>
    /\ kids = << <<>> >>
    /\ phase = "block"
    /\ open = <<RootId>>
    /\ frames = <<>>
    /\ cur = 0
    /\ state = NoState
    /\ aborted = FALSE
    /\ LibIdle

\* the block nodes made so far (the Root apart) and the inline tokens taken
\* so far (text, footnote reference, inline footnote)
NumBlocks ==
    Cardinality({n \in DOMAIN nodes :
                   \/ nodes[n].kind \in {"Paragraph", "Blockquote"}
                   \/ (nodes[n].kind = "FootnoteDefinition" /\ ~nodes[n].inline)})
NumTokens ==
    Cardinality({n \in DOMAIN nodes :
                   \/ nodes[n].kind = "Text"
                   \/ (nodes[n].kind = "FootnoteReference" /\ nodes[n].label # "")
                   \/ (nodes[n].kind = "FootnoteDefinition" /\ nodes[n].inline)})

\* push a new node as the last child of the current node
Attach(parent, n) ==
    /\ nodes' = Append(nodes, n)
    /\ kids' = [Append(kids, <<>>) EXCEPT ![parent] = Append(@, Len(nodes) + 1)]

\* the fallback paragraph rule of the block engine
BlockParagraph ==
    /\ phase = "block"
    /\ NumBlocks < MaxBlocks
    /\ Attach(Top(open), NewNode("Paragraph", "", 0, 0, FALSE))
    /\ op' = <<"paragraph", "">>
    /\ ret' = None
    /\ UNCHANGED <<root_ext, issued, phase, open, frames, cur, scanvars>>
    /\ UNCHANGED libvars

\* a container block (blockquote): its body is parsed as blocks
BlockquoteOpen ==
    /\ phase = "block"
    /\ NumBlocks < MaxBlocks
    /\ Attach(Top(open), NewNode("Blockquote", "", 0, 0, FALSE))
    /\ open' = Append(open, Len(nodes) + 1)
    /\ op' = <<"blockquote", "">>
    /\ ret' = None
    /\ UNCHANGED <<root_ext, issued, phase, frames, cur, scanvars>>
    /\ UNCHANGED libvars

\* the footnote definition block rule: "[^label]: body"
DefinitionRun(label) ==
    /\ phase = "block"
    /\ NumBlocks < MaxBlocks
    /\ LET ext == get_or_insert_default(root_ext)
           r == add_def(ext["FootnoteMap"], label)
       IN /\ root_ext' = [ext EXCEPT !["FootnoteMap"] = r.map]
          /\ ret' = r.ret
          /\ issued' = [issued EXCEPT !.defs = @ \cup {r.ret[i] : i \in DOMAIN r.ret}]
          /\ IF r.ret = None
             THEN \* no match: the lines fall through to the paragraph rule
                  /\ Attach(Top(open), NewNode("Paragraph", "", 0, 0, FALSE))
                  /\ open' = open
             ELSE /\ Attach(Top(open), NewNode("FootnoteDefinition", label, r.ret[1], 0, FALSE))
                  /\ open' = Append(open, Len(nodes) + 1)
    /\ op' = <<"definition", label>>
    /\ UNCHANGED <<phase, frames, cur, scanvars>>
    /\ UNCHANGED libvars

\* the end of the body of a container block
BlockClose ==
    /\ phase = "block"
    /\ Len(open) > 1
    /\ open' = Pop(open)
    /\ op' = <<"close", "">>
    /\ ret' = None
    /\ UNCHANGED <<root_ext, issued, nodes, kids, phase, frames, cur, scanvars>>
    /\ UNCHANGED libvars

\* end of input: the block rule is done, the inline rule starts
BlockEnd ==
    /\ phase = "block"
    /\ phase' = "inline"
    /\ open' = <<>>
    /\ op' = <<"inline", "">>
    /\ ret' = None
    /\ UNCHANGED <<root_ext, issued, nodes, kids, frames, cur, scanvars>>
    /\ UNCHANGED libvars

\* ----------------------------------------------------------- inline phase
RECURSIVE PreOrderSeq(_, _)
RECURSIVE PreOrder(_, _)
\* the nodes of the subtrees of the node ids in s, in pre-order
PreOrderSeq(k, s) ==
    IF s = <<>> THEN <<>> ELSE PreOrder(k, Head(s)) \o PreOrderSeq(k, Tail(s))
\* Node::walk order: the node, then its children from first to last
PreOrder(k, n) == <<n>> \o PreOrderSeq(k, k[n])

\* the leaf blocks whose text the inline rule tokenizes, in document order
Paragraphs == SelectSeq(PreOrder(kids, RootId), LAMBDA n : nodes[n].kind = "Paragraph")

\* the inline tokenizer is done with a leaf block and moves to the next one
InlineNext ==
    /\ phase = "inline"
    /\ Len(open) <= 1
    /\ IF cur < Len(Paragraphs)
       THEN /\ cur' = cur + 1
            /\ open' = <<Paragraphs[cur + 1]>>
            /\ phase' = phase
       ELSE /\ cur' = cur
            /\ open' = <<>>
            /\ phase' = "core"
    /\ op' = <<"next", "">>
    /\ ret' = None
    /\ UNCHANGED <<root_ext, issued, nodes, kids, frames, scanvars>>
    /\ UNCHANGED libvars

\* no rule matches at the current position: the character becomes text
InlineText ==
    /\ phase = "inline"
    /\ Len(open) >= 1
    /\ NumTokens < MaxTokens
    /\ Attach(Top(open), NewNode("Text", "", 0, 0, FALSE))
    /\ op' = <<"text", "">>
    /\ ret' = None
    /\ UNCHANGED <<root_ext, issued, phase, open, frames, cur, scanvars>>
    /\ UNCHANGED libvars

\* FootnoteReferenceScanner::run at "[^label]"
ReferenceRun(label) ==
    /\ phase = "inline"
    /\ Len(open) >= 1
    /\ NumTokens < MaxTokens
    /\ LET ext == get_or_insert_default(root_ext)
           r == add_ref(ext["FootnoteMap"], label)
       IN /\ root_ext' = [ext EXCEPT !["FootnoteMap"] = r.map]
          /\ ret' = r.ret
          /\ issued' = [issued EXCEPT !.refs = @ \cup {r.ret[i] : i \in DOMAIN r.ret \ {1}}]
          /\ IF r.ret = None
             THEN UNCHANGED <<nodes, kids>>
             ELSE Attach(Top(open), NewNode("FootnoteReference", label, r.ret[1], r.ret[2], FALSE))
    /\ op' = <<"reference", label>>
    /\ UNCHANGED <<phase, open, frames, cur, scanvars>>
    /\ UNCHANGED libvars

\* InlineFootnoteScanner::run at "^[body]", up to the nested tokenize call:
\* the new definition node becomes the current node
InlineFootnoteRun ==
    /\ phase = "inline"
    /\ Len(open) >= 1
    /\ NumTokens < MaxTokens
    /\ LET ext == get_or_insert_default(root_ext)
           r == add_inline_def(ext["FootnoteMap"])
       IN /\ root_ext' = [ext EXCEPT !["FootnoteMap"] = r.map]
          /\ ret' = r.ret
          /\ issued' = [defs |-> issued.defs \cup {r.ret[1]},
                        refs |-> issued.refs \cup {r.ret[2]}]
          /\ nodes' = Append(nodes, NewNode("FootnoteDefinition", "", r.ret[1], 0, TRUE))
          /\ kids' = Append(kids, <<>>)
          /\ frames' = Append(frames, r.ret)
    /\ open' = Append(open, Len(nodes) + 1)
    /\ op' = <<"inline_footnote", "">>
    /\ UNCHANGED <<phase, cur, scanvars>>
    /\ UNCHANGED libvars

\* InlineFootnoteScanner::run after the nested tokenize call returned: the
\* current node is restored and the definition and reference are wrapped
InlineFootnoteReturn ==
    /\ phase = "inline"
    /\ Len(frames) >= 1
    /\ LET def_node == Top(open)
           def_id == Top(frames)[1]
           ref_id == Top(frames)[2]
           ref_node == Len(nodes) + 1
           outer_node == Len(nodes) + 2
       IN /\ nodes' = nodes \o <<NewNode("FootnoteReference", "", def_id, ref_id, FALSE),
                                 NewNode("InlineFootnote", "", 0, 0, FALSE)>>
          /\ kids' = [kids \o << <<>>, <<def_node, ref_node>> >>
                        EXCEPT ![Top(Pop(open))] = Append(@, outer_node)]
          /\ ret' = <<def_id, ref_id>>
    /\ open' = Pop(open)
    /\ frames' = Pop(frames)
    /\ op' = <<"inline_footnote_end", "">>
    /\ UNCHANGED <<root_ext, issued, phase, cur, scanvars>>
    /\ UNCHANGED libvars

ParseNext ==
    \/ BlockParagraph
    \/ BlockquoteOpen
    \/ \E label \in Labels : DefinitionRun(label)
    \/ BlockClose
    \/ BlockEnd
    \/ InlineNext
    \/ InlineText
    \/ \E label \in Labels : ReferenceRun(label)
    \/ InlineFootnoteRun
    \/ InlineFootnoteReturn

\* ------------------------------------------------------ collection pass
\* Node::new(PlaceholderNode) in a children vector
Placeholder == 0

Reverse(s) == [i \in 1..Len(s) |-> s[Len(s) + 1 - i]]

\* collect.rs lines 112-118 with the children of the definition dropped
WrapInline_empty(st, child) ==
    LET para == Len(st.nodes) + 1 IN
    [st EXCEPT !.nodes = Append(@, NewNode("Paragraph", "", 0, 0, FALSE)),
               !.kids = [Append(@, <<>>) EXCEPT ![child] = <<para>>]]

\* collect.rs lines 112-118: the children of an inline definition are moved
\* into a new Paragraph, which becomes the only child of the definition
WrapInline(st, child) ==
    LET para == Len(st.nodes) + 1 IN
    [st EXCEPT !.nodes = Append(@, NewNode("Paragraph", "", 0, 0, FALSE)),
               !.kids = [Append(@, st.kids[child]) EXCEPT ![child] = <<para>>]]

RECURSIVE ExtractFrom(_, _, _, _)
\* the for loop of the closure, from the i-th child of node on;
\* st holds the tree and the defs vector
ExtractFrom(map, st, node, i) ==
    IF i > Len(st.kids[node]) THEN st
    ELSE LET child == st.kids[node][i] IN
         IF st.nodes[child].kind = "FootnoteDefinition"
         THEN LET def_node == st.nodes[child]
                  replaced == [st EXCEPT !.kids[node][i] = Placeholder]
              IN IF def_node.def_id = 0
                 THEN ExtractFrom(map, replaced, node, i + 1)
                 ELSE IF referenced_by(map, def_node.def_id) = <<>>
                 THEN ExtractFrom(map, replaced, node, i + 1)
                 ELSE LET wrapped == IF def_node.inline
                                     THEN WrapInline(replaced, child)
                                     ELSE replaced
                      IN ExtractFrom(map, [wrapped EXCEPT !.defs = Append(@, child)],
                                     node, i + 1)
         ELSE ExtractFrom(map, st, node, i + 1)

\* the closure passed to walk_mut, the children that remain reversed
CollectClosure_reversed(map, st, node) ==
    LET done == ExtractFrom(map, st, node, 1) IN
    [done EXCEPT !.kids[node] = Reverse(SelectSeq(@, LAMBDA c : c # Placeholder))]

\* the closure passed to walk_mut: extract the definitions among the
\* children of node, then prune the placeholders
CollectClosure(map, st, node) ==
    LET done == ExtractFrom(map, st, node, 1) IN
    [done EXCEPT !.kids[node] = SelectSeq(@, LAMBDA c : c # Placeholder)]

RECURSIVE WalkMut(_, _, _)
\* Node::walk_mut with the closure above: pre-order, the closure runs on a
\* node before the traversal descends into the children the closure left;
\* todo is the work stack, next node last
WalkMut(map, st, todo) ==
    IF todo = <<>> THEN st
    ELSE LET node == Top(todo)
             visited == CollectClosure(map, st, node)
         IN WalkMut(map, visited, Pop(todo) \o Reverse(visited.kids[node]))

\* FootnoteCollectRule::run
CollectRun ==
    /\ phase = "core"
    /\ IF "FootnoteMap" \notin DOMAIN root_ext
       THEN \* None => return: the taken extension set is dropped
            /\ root_ext' = ExtDefault
            /\ UNCHANGED <<nodes, kids>>
       ELSE LET walked == WalkMut(root_ext["FootnoteMap"],
                                  [nodes |-> nodes, kids |-> kids, defs |-> <<>>],
                                  <<RootId>>)
            IN IF walked.defs = <<>>
               THEN \* return: the taken extension set is dropped
                    /\ root_ext' = ExtDefault
                    /\ nodes' = walked.nodes
                    /\ kids' = walked.kids
               ELSE /\ nodes' = Append(walked.nodes,
                                       NewNode("FootnotesContainerNode", "", 0, 0, FALSE))
                    /\ kids' = [Append(walked.kids, walked.defs)
                                  EXCEPT ![RootId] = Append(@, Len(walked.nodes) + 1)]
                    /\ root_ext' = root_ext
    /\ phase' = "done"
    /\ op' = <<"collect", "">>
    /\ ret' = None
    /\ UNCHANGED <<issued, open, frames, cur, scanvars>>
    /\ UNCHANGED libvars

Next ==
    \/ ParseNext
    \/ CollectRun

Spec == Init /\ [][Next]_vars

\* ------------------------------------------------- inline footnote scanner
\* The source text is a sequence of UTF-8 bytes: four one-byte characters
\* and one two-byte character (lead byte "E1", continuation byte "E2").
Bytes == {"^", "[", "]", "x", "E1", "E2"}
MaxLen == 5

\* char::len_utf8 of the character that starts with byte b
len_utf8(b) == IF b = "E1" THEN 2 ELSE 1

\* the strings a &str can hold
ValidUtf8(src) ==
    \A i \in DOMAIN src :
        /\ src[i] = "E1" => (i < Len(src) /\ src[i + 1] = "E2")
        /\ src[i] = "E2" => (i > 1 /\ src[i - 1] = "E1")

\* str::is_char_boundary for the byte offset i (counted from 0)
is_char_boundary(src, i) ==
    \/ i = 0
    \/ i = Len(src)
    \/ (i < Len(src) /\ src[i + 1] # "E2")

\* &src[a..b] does not panic
SliceOk(src, a, b) ==
    /\ a <= b
    /\ is_char_boundary(src, a)
    /\ is_char_boundary(src, b)

\* state.src[state.pos..state.pos_max].chars().next(), "" for None;
\* the first byte stands for the character
NextChar(st) == IF st.pos = st.pos_max THEN "" ELSE st.src[st.pos + 1]

\* the outcome of a call: the InlineState it leaves, its return value and
\* whether it panicked
Outcome(st, r, p) == [state |-> st, ret |-> r, panic |-> p]

RECURSIVE check(_)
RECURSIVE run(_)
RECURSIVE parse_footnote(_, _)
RECURSIVE ScanFrom(_)
RECURSIVE skip_token(_)
RECURSIVE Tokenize(_)

\* InlineParser::skip_token: a rule whose marker is the current character
\* and whose check matches skips its whole construct, else one character is
\* skipped ("^" is the marker of InlineFootnoteScanner; in a document
\* without footnote definitions and link targets no rule matches at "[")
skip_token(st) ==
    LET ch == NextChar(st)
        ok == IF ch = "^" THEN check(st) ELSE Outcome(st, None, FALSE)
    IN IF ok.panic THEN ok
       ELSE Outcome([st EXCEPT !.pos = @ + (IF ok.ret # None THEN ok.ret[1] ELSE len_utf8(ch))],
                    None, FALSE)

\* the while loop of parse_footnote: ret is Some(()) when "]" was found
ScanFrom(st) ==
    IF ~SliceOk(st.src, st.pos, st.pos_max) THEN Outcome(st, None, TRUE)
    ELSE IF NextChar(st) = "" THEN Outcome(st, None, FALSE)
    ELSE IF NextChar(st) = "]" THEN Outcome(st, <<TRUE>>, FALSE)
    ELSE LET skipped == skip_token(st)
         IN IF skipped.panic THEN skipped ELSE ScanFrom(skipped.state)

\* parse_footnote, without "restore old state"
parse_footnote_moved(st, start) ==
    LET loop == ScanFrom([st EXCEPT !.pos = start + 1])
    IN IF loop.panic THEN loop
       ELSE Outcome(loop.state,
                    IF loop.ret # None THEN <<loop.state.pos>> ELSE None,
                    FALSE)

\* parse_footnote
parse_footnote(st, start) ==
    LET old_pos == st.pos
        loop == ScanFrom([st EXCEPT !.pos = start + 1])
    IN IF loop.panic THEN loop
       ELSE Outcome([loop.state EXCEPT !.pos = old_pos],
                    IF loop.ret # None THEN <<loop.state.pos>> ELSE None,
                    FALSE)

\* the text at pos starts with "^["
StartsWithMarker(st) ==
    /\ st.pos + 2 <= st.pos_max
    /\ st.src[st.pos + 1] = "^"
    /\ st.src[st.pos + 2] = "["

\* InlineFootnoteScanner::check
check(st) ==
    IF ~SliceOk(st.src, st.pos, st.pos_max) THEN Outcome(st, None, TRUE)
    ELSE IF ~StartsWithMarker(st) THEN Outcome(st, None, FALSE)
    ELSE LET content_start == st.pos + 2
             parsed == parse_footnote(st, content_start)
         IN IF parsed.panic THEN parsed
            ELSE IF parsed.ret = None THEN Outcome(parsed.state, None, FALSE)
            ELSE Outcome(parsed.state, <<parsed.ret[1] + 1 - parsed.state.pos>>, FALSE)

\* the text rule: a character no rule takes joins the Text node at the end
\* of the current node, or starts one
PushText(st) ==
    LET sibs == st.kids[st.node] IN
    IF sibs # <<>> /\ st.nodes[sibs[Len(sibs)]].kind = "Text" THEN st
    ELSE [st EXCEPT !.nodes = Append(@, NewNode("Text", "", 0, 0, FALSE)),
                    !.kids = [Append(@, <<>>) EXCEPT ![st.node] = Append(@, Len(st.nodes) + 1)]]

\* InlineParser::tokenize: at each position the rule of the marker runs;
\* its node becomes the next child of the current node and the position
\* advances by the reported length, else the character becomes text
Tokenize(st) ==
    IF st.pos >= st.pos_max THEN Outcome(st, None, FALSE)
    ELSE LET ch == NextChar(st)
             r == IF ch = "^" THEN run(st) ELSE Outcome(st, None, FALSE)
         IN IF r.panic THEN r
            ELSE IF r.ret # None
            THEN Tokenize([r.state EXCEPT !.kids[st.node] = Append(@, r.ret[1]),
                                          !.pos = @ + r.ret[2]])
            ELSE Tokenize([PushText(r.state) EXCEPT !.pos = @ + len_utf8(ch)])

\* InlineFootnoteScanner::run; Some((node, length)) is <<node id, length>>
run(st) ==
    IF ~SliceOk(st.src, st.pos, st.pos_max) THEN Outcome(st, None, TRUE)
    ELSE IF ~StartsWithMarker(st) THEN Outcome(st, None, FALSE)
    ELSE LET content_start == st.pos + 2
             parsed == parse_footnote(st, content_start)
         IN IF parsed.panic THEN parsed
            ELSE IF parsed.ret = None THEN Outcome(parsed.state, None, FALSE)
            ELSE LET content_end == parsed.ret[1]
                     ext == get_or_insert_default(parsed.state.root_ext)
                     ids == add_inline_def(ext["FootnoteMap"])
                     def_node == Len(parsed.state.nodes) + 1
                     start == parsed.state.pos
                     max == parsed.state.pos_max
                     nested == Tokenize(
                         [parsed.state EXCEPT
                            !.root_ext = [ext EXCEPT !["FootnoteMap"] = ids.map],
                            !.nodes = Append(@, NewNode("FootnoteDefinition", "",
                                                        ids.ret[1], 0, TRUE)),
                            !.kids = Append(@, <<>>),
                            !.node = def_node,
                            !.pos = content_start,
                            !.pos_max = content_end])
                 IN IF nested.panic THEN nested
                    ELSE LET ref_node == Len(nested.state.nodes) + 1
                             outer_node == Len(nested.state.nodes) + 2
                         IN Outcome(
                              [nested.state EXCEPT
                                 !.pos = start,
                                 !.pos_max = max,
                                 !.node = st.node,
                                 !.nodes = @ \o <<NewNode("FootnoteReference", "",
                                                          ids.ret[1], ids.ret[2], FALSE),
                                                  NewNode("InlineFootnote", "", 0, 0, FALSE)>>,
                                 !.kids = @ \o << <<>>, <<def_node, ref_node>> >>],
                              <<outer_node, content_end + 1 - start>>,
                              FALSE)

\* ---- one call of the scanner on an inline span
\* the InlineState the rule sees: the cursor, the root extension set and
\* the node under construction
Seen ==
    [src |-> state.src, pos |-> state.pos, pos_max |-> state.pos_max,
     root_ext |-> root_ext, node |-> Top(open), nodes |-> nodes, kids |-> kids]

Strings == UNION {[1..n -> Bytes] : n \in 0..MaxLen}

\* the inline rule has reached a position of the text of a paragraph
ScanInit ==
    /\ root_ext = ExtDefault
    /\ ret = None
    /\ op = <<"parse", "">>
    /\ issued = NoIssued
    /\ nodes = <<NewNode("Root", "", 0, 0, FALSE), NewNode("Paragraph", "", 0, 0, FALSE)>>
    /\ kids = << <<2>>, <<>> >>
    /\ phase = "scan"
    /\ open = <<2>>
    /\ frames = <<>>
    /\ cur = 1
    /\ aborted = FALSE
    /\ \E src \in Strings :
         /\ ValidUtf8(src)
         /\ \E pos \in 0..Len(src), pos_max \in 0..Len(src) :
              /\ pos < pos_max
              /\ is_char_boundary(src, pos)
              /\ is_char_boundary(src, pos_max)
              /\ state = [src |-> src, pos |-> pos, pos_max |-> pos_max]
    /\ LibIdle

\* what a call leaves in the variables
Leaves(out) ==
    /\ state' = [src |-> out.state.src, pos |-> out.state.pos, pos_max |-> out.state.pos_max]
    /\ root_ext' = out.state.root_ext
    /\ nodes' = out.state.nodes
    /\ kids' = out.state.kids
    /\ open' = <<out.state.node>>
    /\ ret' = out.ret
    /\ aborted' = out.panic
    /\ issued' = IF "FootnoteMap" \in DOMAIN out.state.root_ext
                 THEN [defs |-> 1..out.state.root_ext["FootnoteMap"].def_counter,
                       refs |-> 1..out.state.root_ext["FootnoteMap"].ref_counter]
                 ELSE issued

\* skip_token asks the rule: InlineFootnoteScanner::check
ScanCheck ==
    /\ phase = "scan"
    /\ Leaves(check(Seen))
    /\ op' = <<"check", "">>
    /\ phase' = "scanned"
    /\ UNCHANGED <<frames, cur>>
    /\ UNCHANGED libvars

\* tokenize asks the rule: InlineFootnoteScanner::run
ScanRun ==
    /\ phase = "scan"
    /\ Leaves(run(Seen))
    /\ op' = <<"run", "">>
    /\ phase' = "scanned"
    /\ UNCHANGED <<frames, cur>>
    /\ UNCHANGED libvars

ScanNext ==
    \/ ScanCheck
    \/ ScanRun

SpecScan == ScanInit /\ [][ScanNext]_vars

\* --------------------------------------------------- link and image rules
\* The text of a span over the characters LINK_MD_PATTERN tells apart: the
\* brackets, the parentheses, the newline ("nl") and one two-byte character
\* that stands for any other text; an image span starts with "!".
LinkBytes == {"[", "]", "(", ")", "nl", "E1", "E2"}
MaxLinkLen == 6

RECURSIVE LinkTextClose(_, _)
RECURSIVE UrlEnd(_, _)
RECURSIVE trim_end(_)

\* `(?P<link_text>.+?)\]\(` with the characters before index e already in
\* the link text: the index of the first "]" that "(" follows, 0 when a
\* newline (which `.` does not match) or the end of the input comes first
LinkTextClose(input, e) ==
    IF e + 1 > Len(input) THEN 0
    ELSE IF input[e] = "]" /\ input[e + 1] = "(" THEN e
    ELSE IF input[e] = "nl" THEN 0
    ELSE LinkTextClose(input, e + 1)

\* `(?P<url>[^)]*)` after index u: the index of the last byte of the url
UrlEnd(input, u) ==
    IF u + 1 <= Len(input) /\ input[u + 1] # ")" THEN UrlEnd(input, u + 1) ELSE u

\* the pattern tried at index s: Some(index of the last byte of the match)
MatchAt(input, s) ==
    IF ~(s + 1 <= Len(input) /\ input[s] = "[" /\ input[s + 1] # "nl") THEN None
    ELSE LET e == LinkTextClose(input, s + 2) IN
         IF e = 0 THEN None
         ELSE LET u == UrlEnd(input, e + 1)
                  c == IF u + 1 <= Len(input) /\ input[u + 1] = ")" THEN u + 1 ELSE u
                  n == IF c + 1 <= Len(input) /\ input[c + 1] = "nl" THEN c + 1 ELSE c
              IN <<n>>

\* LINK_MD_PATTERN.captures(input): the leftmost match, as the text of caps[0]
LINK_MD_PATTERN(input) ==
    LET starts == {s \in 1..Len(input) : MatchAt(input, s) # None} IN
    IF starts = {} THEN None
    ELSE LET s == CHOOSE x \in starts : \A y \in starts : x <= y
         IN <<SubSeq(input, s, MatchAt(input, s)[1])>>

\* str::trim_end: the newline is the only whitespace of the alphabet
trim_end(m) ==
    IF m # <<>> /\ m[Len(m)] = "nl" THEN trim_end(SubSeq(m, 1, Len(m) - 1)) ELSE m

\* input.starts_with(prefix)
starts_with(input, prefix) ==
    /\ Len(prefix) <= Len(input)
    /\ SubSeq(input, 1, Len(prefix)) = prefix

\* LinkScanner::run; Some((node, length)) is <<"Link", length>>
LinkScanner_run(st) ==
    IF ~SliceOk(st.src, st.pos, st.pos_max) THEN Outcome(st, None, TRUE)
    ELSE LET input == SubSeq(st.src, st.pos + 1, st.pos_max)
             caps == LINK_MD_PATTERN(input)
         IN IF ~starts_with(input, <<"[">>) THEN Outcome(st, None, FALSE)
            ELSE IF caps = None THEN Outcome(st, None, FALSE)
            ELSE Outcome(st, <<"Link", Len(trim_end(caps[1]))>>, FALSE)

\* ImageScanner::run, the "!" counted twice
ImageScanner_run_bang_twice(st) ==
    IF ~SliceOk(st.src, st.pos, st.pos_max) THEN Outcome(st, None, TRUE)
    ELSE LET input == SubSeq(st.src, st.pos + 1, st.pos_max)
             caps == LINK_MD_PATTERN(input)
         IN IF ~starts_with(input, <<"!", "[">>) THEN Outcome(st, None, FALSE)
            ELSE IF caps = None THEN Outcome(st, None, FALSE)
            ELSE Outcome(st, <<"Image", 2 + Len(trim_end(caps[1]))>>, FALSE)

\* ImageScanner::run; Some((node, length)) is <<"Image", length>>
ImageScanner_run(st) ==
    IF ~SliceOk(st.src, st.pos, st.pos_max) THEN Outcome(st, None, TRUE)
    ELSE LET input == SubSeq(st.src, st.pos + 1, st.pos_max)
             caps == LINK_MD_PATTERN(input)
         IN IF ~starts_with(input, <<"!", "[">>) THEN Outcome(st, None, FALSE)
            ELSE IF caps = None THEN Outcome(st, None, FALSE)
            ELSE Outcome(st, <<"Image", 1 + Len(trim_end(caps[1]))>>, FALSE)

LinkStrings == UNION {[1..n -> LinkBytes] : n \in 0..MaxLinkLen}

\* ------------------------------------------------- the other inline rules
MaxRuleLen == 5

RECURSIVE LabelEnd(_, _)
RECURSIVE Find(_, _, _)
RECURSIVE parse(_)
RECURSIVE MathEnd(_, _)
RECURSIVE DisplayFrom(_, _)
RECURSIVE Flatten(_)

\* the loop of FootnoteReferenceScanner::run from index i on: the index of
\* the "]" that ends the label, 0 when a space or the end comes first
LabelEnd(input, i) ==
    IF i > Len(input) THEN 0
    ELSE IF input[i] = "]" THEN i
    ELSE IF input[i] = " " THEN 0
    ELSE LabelEnd(input, i + 1)

\* FootnoteReferenceScanner::run with the FootnoteMap fetched on entry
FootnoteReferenceScanner_run_map_first(st) ==
    IF ~SliceOk(st.src, st.pos, st.pos_max) THEN Outcome(st, None, TRUE)
    ELSE LET input == SubSeq(st.src, st.pos + 1, st.pos_max)
             close == LabelEnd(input, 3)
             label == SubSeq(input, 3, close - 1)
             ext == get_or_insert_default(st.root_ext)
             ids == add_ref(ext["FootnoteMap"], label)
             fetched == [st EXCEPT !.root_ext = ext]
             inserted == [st EXCEPT !.root_ext = [ext EXCEPT !["FootnoteMap"] = ids.map]]
         IN IF ~starts_with(input, <<"[", "^">>) THEN Outcome(fetched, None, FALSE)
            ELSE IF close = 0 THEN Outcome(fetched, None, FALSE)
            ELSE IF label = <<>> THEN Outcome(fetched, None, FALSE)
            ELSE IF ids.ret = None THEN Outcome(inserted, None, FALSE)
            ELSE Outcome(inserted, <<"FootnoteReference", Len(label) + 3>>, FALSE)

\* FootnoteReferenceScanner::run; st carries the root extension set
FootnoteReferenceScanner_run(st) ==
    IF ~SliceOk(st.src, st.pos, st.pos_max) THEN Outcome(st, None, TRUE)
    ELSE LET input == SubSeq(st.src, st.pos + 1, st.pos_max)
             close == LabelEnd(input, 3)
             label == SubSeq(input, 3, close - 1)
             ext == get_or_insert_default(st.root_ext)
             ids == add_ref(ext["FootnoteMap"], label)
             inserted == [st EXCEPT !.root_ext = [ext EXCEPT !["FootnoteMap"] = ids.map]]
         IN IF ~starts_with(input, <<"[", "^">>) THEN Outcome(st, None, FALSE)
            ELSE IF close = 0 THEN Outcome(st, None, FALSE)
            ELSE IF label = <<>> THEN Outcome(st, None, FALSE)
            ELSE IF ids.ret = None THEN Outcome(inserted, None, FALSE)
            ELSE Outcome(inserted, <<"FootnoteReference", Len(label) + 3>>, FALSE)

\* the three bytes of OPEN_CITATION and of CLOSE_CITATION
OPEN_CITATION == <<"O1", "E2", "E2">>
CLOSE_CITATION == <<"C1", "E2", "E2">>

\* CitationExtensionPlugin.citations.len()
NumCitations == 2

\* str::find from index i on: the index where pat starts, 0 for None
Find(input, pat, i) ==
    IF i + Len(pat) - 1 > Len(input) THEN 0
    ELSE IF SubSeq(input, i, i + Len(pat) - 1) = pat THEN i
    ELSE Find(input, pat, i + 1)

\* str::parse::<usize>: Some(value) of a string of decimal digits
parse(digits) ==
    IF digits = <<>> \/ \E i \in DOMAIN digits : digits[i] \notin {"0", "1"} THEN None
    ELSE IF Len(digits) = 1 THEN <<IF digits[1] = "0" THEN 0 ELSE 1>>
    ELSE <<10 * parse(SubSeq(digits, 1, Len(digits) - 1))[1]
             + (IF digits[Len(digits)] = "0" THEN 0 ELSE 1)>>

\* CitationInlineScanner::run
CitationInlineScanner_run(st) ==
    IF ~SliceOk(st.src, st.pos, st.pos_max) THEN Outcome(st, None, TRUE)
    ELSE LET input == SubSeq(st.src, st.pos + 1, st.pos_max)
             close == Find(input, CLOSE_CITATION, 1)
             citation_match == SubSeq(input, 1, close + Len(CLOSE_CITATION) - 1)
             citation_index == parse(SubSeq(input, Len(OPEN_CITATION) + 1, close - 1))
         IN IF ~starts_with(input, OPEN_CITATION) \/ close = 0 THEN Outcome(st, None, FALSE)
            ELSE IF citation_index = None THEN Outcome(st, None, FALSE)
            ELSE IF citation_index[1] >= NumCitations THEN Outcome(st, None, FALSE)
            ELSE Outcome(st, <<"CitationNode", Len(citation_match)>>, FALSE)

MAIL_PREFIX == <<"m", "a", "i", "l", "t", "o", ":">>
PHONE_PREFIX == <<"t", "e", "l", ":">>

\* ContactInfoScanner::run
ContactInfoScanner_run(st) ==
    IF ~SliceOk(st.src, st.pos, st.pos_max) THEN Outcome(st, None, TRUE)
    ELSE LET input == SubSeq(st.src, st.pos + 1, st.pos_max)
             end == Find(input, <<">">>, 1) - 1
             matched == SubSeq(input, 1, end + 1)
         IN IF ~starts_with(input, <<"<">> \o MAIL_PREFIX)
               /\ ~starts_with(input, <<"<">> \o PHONE_PREFIX) THEN Outcome(st, None, FALSE)
            ELSE IF end < 0 THEN Outcome(st, None, FALSE)
            ELSE Outcome(st, <<"ContactInfo", Len(matched)>>, FALSE)

\* NL2BRInlineScanner::run
NL2BRInlineScanner_run(st) ==
    IF ~SliceOk(st.src, st.pos, st.pos_max) THEN Outcome(st, None, TRUE)
    ELSE IF ~starts_with(SubSeq(st.src, st.pos + 1, st.pos_max), <<"nl">>)
    THEN Outcome(st, None, FALSE)
    ELSE Outcome(st, <<"InlineNL2BR", 1>>, FALSE)

\* char::is_whitespace and the regex class \s, over the alphabet
is_whitespace(c) == c \in {" ", "nl"}

\* `[^$\\]*(?:\\.[^$\\]*)*` from index i on: the index of the first "$"
\* that no backslash escapes, 0 when the input ends or a backslash has no
\* character to escape (`.` does not match the newline) before one
MathEnd(input, i) ==
    IF i > Len(input) THEN 0
    ELSE IF input[i] = "$" THEN i
    ELSE IF input[i] = "bs"
    THEN IF i + 1 <= Len(input) /\ input[i + 1] # "nl" THEN MathEnd(input, i + 2) ELSE 0
    ELSE MathEnd(input, i + 1)

\* INLINE_MATH_DOLLAR_REGEX.captures(input): Some(length of caps[0]).  The
\* group sp takes the whitespace after the opening "$" when there is one
\* (without it the lookahead fails), the group math ends before the closing
\* "$", or before the copy of sp in front of it.
INLINE_MATH_DOLLAR_REGEX(input) ==
    IF ~starts_with(input, <<"$">>) THEN None
    ELSE LET sp == IF Len(input) >= 2 /\ is_whitespace(input[2]) THEN 1 ELSE 0
             s == 2 + sp
             q == MathEnd(input, s)
             last == q - 1 - sp
         IN IF s <= Len(input) /\ (input[s] = "$" \/ is_whitespace(input[s])) THEN None
            ELSE IF q = 0 THEN None
            ELSE IF sp = 1 /\ input[q - 1] # input[2] THEN None
            ELSE IF last < s THEN None
            ELSE IF input[last] = "bs" \/ is_whitespace(input[last]) THEN None
            ELSE IF q + 1 <= Len(input) /\ input[q + 1] \in {"$", "x"} THEN None
            ELSE <<q>>

\* `(?P<math>.*?)(?<!\\)(?:\n)?\$\$` with math ending before index e:
\* Some(index of the last byte of the match), the shortest math first
DisplayFrom(input, e) ==
    IF e + 1 > Len(input) THEN None
    ELSE IF input[e - 1] # "bs" /\ e + 2 <= Len(input)
            /\ SubSeq(input, e, e + 2) = <<"nl", "$", "$">> THEN <<e + 2>>
    ELSE IF input[e - 1] # "bs" /\ SubSeq(input, e, e + 1) = <<"$", "$">> THEN <<e + 1>>
    ELSE DisplayFrom(input, e + 1)

\* DISPLAY_MATH_DOLLAR_REGEX.captures(input): Some(length of caps[0]); the
\* optional newline after the opening "$$" is tried first
DISPLAY_MATH_DOLLAR_REGEX(input) ==
    IF ~starts_with(input, <<"$", "$">>) THEN None
    ELSE IF Len(input) >= 3 /\ input[3] = "nl" /\ DisplayFrom(input, 4) # None
    THEN DisplayFrom(input, 4)
    ELSE DisplayFrom(input, 3)

\* state.src.get(..state.pos).and_then(|s| s.chars().rev().next()), "" for
\* None (the characters math can follow are one byte long)
preceeding_char(st) == IF st.pos = 0 THEN "" ELSE st.src[st.pos]

\* MathInlineScanner::run
MathInlineScanner_run(st) ==
    IF ~SliceOk(st.src, st.pos, st.pos_max) THEN Outcome(st, None, TRUE)
    ELSE LET input == SubSeq(st.src, st.pos + 1, st.pos_max)
             caps == INLINE_MATH_DOLLAR_REGEX(input)
         IN IF ~starts_with(input, <<"$">>) THEN Outcome(st, None, FALSE)
            ELSE IF preceeding_char(st) # ""
                    /\ ~(preceeding_char(st) \in {"*", "("} \/ is_whitespace(preceeding_char(st)))
            THEN Outcome(st, None, FALSE)
            ELSE IF caps = None THEN Outcome(st, None, FALSE)
            ELSE Outcome(st, <<"InlineMath", caps[1]>>, FALSE)

\* MathDisplayScanner::run
MathDisplayScanner_run(st) ==
    IF ~SliceOk(st.src, st.pos, st.pos_max) THEN Outcome(st, None, TRUE)
    ELSE LET input == SubSeq(st.src, st.pos + 1, st.pos_max)
             caps == DISPLAY_MATH_DOLLAR_REGEX(input)
         IN IF ~starts_with(input, <<"$", "$">>) THEN Outcome(st, None, FALSE)
            ELSE IF preceeding_char(st) = "bs" THEN Outcome(st, None, FALSE)
            ELSE IF caps = None THEN Outcome(st, None, FALSE)
            ELSE Outcome(st, <<"DisplayMath", caps[1]>>, FALSE)

\* the concatenation of a sequence of characters (each a sequence of bytes)
Flatten(cs) == IF cs = <<>> THEN <<>> ELSE cs[1] \o Flatten(Tail(cs))

\* the texts of at most MaxRuleLen characters of a set
Texts(chars) == {Flatten(cs) : cs \in UNION {[1..n -> chars] : n \in 1..MaxRuleLen}}

CitationChars == {OPEN_CITATION, CLOSE_CITATION, <<"0">>, <<"1">>, <<"x">>}
ContactChars == {<<"<">>, <<">">>, MAIL_PREFIX, PHONE_PREFIX, <<"x">>}
MathChars == {<<"$">>, <<" ">>, <<"bs">>, <<"x">>, <<"nl">>}

\* a root extension set whose FootnoteMap knows the definition label "x"
DefinedX == [t \in {"FootnoteMap"} |-> add_def(FootnoteMapDefault, <<"x">>).map]

\* the inline tokenizer has reached a position of a span.  The text is
\* drawn from the characters one family of rules tells apart: link and
\* image texts (with or without a leading "!"), footnote texts (with or
\* without a definition for the label "x"), citation and contact texts,
\* and math texts (at the start of the source or after one character).
RuleInit ==
    /\ ret = None
    /\ op = <<"parse", "">>
    /\ nodes = <<NewNode("Root", "", 0, 0, FALSE), NewNode("Paragraph", "", 0, 0, FALSE)>>
    /\ kids = << <<2>>, <<>> >>
    /\ phase = "rule"
    /\ open = <<2>>
    /\ frames = <<>>
    /\ cur = 1
    /\ aborted = FALSE
    /\ LibIdle
    /\ \/ \E body \in LinkStrings, bang \in {<<>>, <<"!">>} :
            /\ ValidUtf8(body)
            /\ root_ext = ExtDefault
            /\ state = [src |-> bang \o body, pos |-> 0, pos_max |-> Len(bang \o body)]
       \/ \E src \in Strings :
            /\ ValidUtf8(src)
            /\ root_ext \in {ExtDefault, DefinedX}
            /\ state = [src |-> src, pos |-> 0, pos_max |-> Len(src)]
       \/ \E src \in Texts(CitationChars) \cup Texts(ContactChars) :
            \E pos_max \in {Len(src) - 1, Len(src)} :
               /\ is_char_boundary(src, pos_max)
               /\ root_ext = ExtDefault
               /\ state = [src |-> src, pos |-> 0, pos_max |-> pos_max]
       \/ \E src \in Texts(MathChars), pos \in {0, 1} :
            /\ pos < Len(src)
            /\ root_ext = ExtDefault
            /\ state = [src |-> src, pos |-> pos, pos_max |-> Len(src)]
    /\ issued = IF "FootnoteMap" \in DOMAIN root_ext
                THEN [defs |-> 1..root_ext["FootnoteMap"].def_counter,
                      refs |-> 1..root_ext["FootnoteMap"].ref_counter]
                ELSE NoIssued

\* what a call of a rule that builds its node from the text alone leaves
RuleLeaves(out, name) ==
    /\ phase' = "ruled"
    /\ state' = out.state
    /\ ret' = out.ret
    /\ aborted' = out.panic
    /\ op' = <<name, "">>
    /\ UNCHANGED <<root_ext, issued, nodes, kids, open, frames, cur>>

\* tokenize runs the rules of the marker at the position: LinkScanner::run
LinkRun ==
    /\ phase = "rule"
    /\ NextChar(state) = "["
    /\ RuleLeaves(LinkScanner_run(state), "link")
    /\ UNCHANGED libvars

\* ImageScanner::run
ImageRun ==
    /\ phase = "rule"
    /\ NextChar(state) = "!"
    /\ RuleLeaves(ImageScanner_run(state), "image")
    /\ UNCHANGED libvars

\* FootnoteReferenceScanner::run
FootnoteReferenceRun ==
    /\ phase = "rule"
    /\ NextChar(state) = "["
    /\ Leaves(FootnoteReferenceScanner_run(Seen))
    /\ op' = <<"reference", "">>
    /\ phase' = "ruled"
    /\ UNCHANGED <<frames, cur, libvars>>

\* InlineFootnoteScanner::run
FootnoteInlineRun ==
    /\ phase = "rule"
    /\ NextChar(state) = "^"
    /\ Leaves(run(Seen))
    /\ op' = <<"inline_footnote", "">>
    /\ phase' = "ruled"
    /\ UNCHANGED <<frames, cur, libvars>>

\* CitationInlineScanner::run
CitationRun ==
    /\ phase = "rule"
    /\ NextChar(state) = OPEN_CITATION[1]
    /\ RuleLeaves(CitationInlineScanner_run(state), "citation")
    /\ UNCHANGED libvars

\* ContactInfoScanner::run
ContactInfoRun ==
    /\ phase = "rule"
    /\ NextChar(state) = "<"
    /\ RuleLeaves(ContactInfoScanner_run(state), "contact_info")
    /\ UNCHANGED libvars

\* NL2BRInlineScanner::run
NL2BRRun ==
    /\ phase = "rule"
    /\ NextChar(state) = "nl"
    /\ RuleLeaves(NL2BRInlineScanner_run(state), "nl2br")
    /\ UNCHANGED libvars

\* MathInlineScanner::run
MathInlineRun ==
    /\ phase = "rule"
    /\ NextChar(state) = "$"
    /\ RuleLeaves(MathInlineScanner_run(state), "inline_math")
    /\ UNCHANGED libvars

\* MathDisplayScanner::run
MathDisplayRun ==
    /\ phase = "rule"
    /\ NextChar(state) = "$"
    /\ RuleLeaves(MathDisplayScanner_run(state), "display_math")
    /\ UNCHANGED libvars

RuleNext ==
    \/ LinkRun
    \/ ImageRun
    \/ FootnoteReferenceRun
    \/ FootnoteInlineRun
    \/ CitationRun
    \/ ContactInfoRun
    \/ NL2BRRun
    \/ MathInlineRun
    \/ MathDisplayRun

SpecRule == RuleInit /\ [][RuleNext]_vars

\* ------------------------------------------------------ the render boundary
\* Threads that call MDParser::render on one parser; each makes at most
\* MaxCalls calls.
Threads == {1, 2}
MaxCalls == 2

\* the PanicHookInfo of the failure of call k of thread t: every failure
\* has its own payload and source location
PanicHookInfo(t, k) ==
    [payload |-> <<"panic", t, k>>, location |-> <<"file", t, "line", k>>]

\* the hook set by init_panic_hook: the message is the payload followed by
\* " at file:line", and it replaces what LAST_PANIC held
init_panic_hook(info) == <<info.payload \o <<" at ">> \o info.location>>

\* Option::take: the value taken and what is left behind
take_peek(opt) == [value |-> opt, left |-> opt]

take(opt) == [value |-> opt, left |-> None]

\* Option::unwrap_or_else
unwrap_or_else(opt, default) == IF opt = None THEN default ELSE opt[1]

\* a thread that has not called yet
NoCalls == [pc |-> "idle", call |-> 0, results |-> <<>>]

\* the module is imported: the hook is installed and LAST_PANIC holds None
RenderInit ==
    /\ root_ext = ExtDefault
    /\ ret = None
    /\ op = <<"import", "">>
    /\ issued = NoIssued
    /\ nodes = <<NewNode("Root", "", 0, 0, FALSE)>>
    /\ kids = << <<>> >>
    /\ phase = "render"
    /\ open = <<>>
    /\ frames = <<>>
    /\ cur = 0
    /\ state = NoState
    /\ aborted = FALSE
    /\ LAST_PANIC = None
    /\ threads = [t \in Threads |-> NoCalls]
    /\ parser = NoParser
    /\ slugger = SluggerDefault
    /\ returned = <<>>

\* thread t enters render: the closure under catch_unwind starts
RenderCall(t) ==
    /\ phase = "render"
    /\ threads[t].pc = "idle"
    /\ threads[t].call < MaxCalls
    /\ threads' = [threads EXCEPT ![t].pc = "running", ![t].call = @ + 1]
    /\ op' = <<"render", t>>
    /\ UNCHANGED <<root_ext, ret, issued, treevars, scanvars, LAST_PANIC, parser, slugvars>>

\* the closure returns the html: render returns Ok(html)
RenderOk(t) ==
    /\ phase = "render"
    /\ threads[t].pc = "running"
    /\ threads' = [threads EXCEPT ![t].pc = "idle", ![t].results = Append(@, <<"Ok">>)]
    /\ op' = <<"ok", t>>
    /\ UNCHANGED <<root_ext, ret, issued, treevars, scanvars, LAST_PANIC, parser, slugvars>>

\* the closure panics: the hook runs in the panicking thread and stores the
\* message under the lock, then the stack unwinds to catch_unwind
RenderPanic(t) ==
    /\ phase = "render"
    /\ threads[t].pc = "running"
    /\ LAST_PANIC' = init_panic_hook(PanicHookInfo(t, threads[t].call))
    /\ threads' = [threads EXCEPT ![t].pc = "unwound"]
    /\ op' = <<"panic", t>>
    /\ UNCHANGED <<root_ext, ret, issued, treevars, scanvars, parser, slugvars>>

\* the Err arm of render: the message is taken out of LAST_PANIC under the
\* lock and returned as the error (a poisoned lock does not occur: no code
\* panics while it holds the lock)
RenderErr(t) ==
    /\ phase = "render"
    /\ threads[t].pc = "unwound"
    /\ LET lock == take(LAST_PANIC)
           msg == unwrap_or_else(lock.value, <<"Rust panic occurred">>)
       IN /\ LAST_PANIC' = lock.left
          /\ threads' = [threads EXCEPT ![t].pc = "idle",
                                        ![t].results = Append(@, <<"Err", msg>>)]
    /\ op' = <<"err", t>>
    /\ UNCHANGED <<root_ext, ret, issued, treevars, scanvars, parser, slugvars>>

\* MDParser::tree panics: there is no catch_unwind, the hook stores the
\* message and the panic reaches the caller
TreePanic(t) ==
    /\ phase = "render"
    /\ threads[t].pc = "idle"
    /\ threads[t].call < MaxCalls
    /\ LET msg == init_panic_hook(PanicHookInfo(t, threads[t].call + 1))
       IN /\ LAST_PANIC' = msg
          /\ threads' = [threads EXCEPT ![t].call = @ + 1,
                                        ![t].results = Append(@, <<"PanicException", msg[1]>>)]
    /\ op' = <<"tree", t>>
    /\ UNCHANGED <<root_ext, ret, issued, treevars, scanvars, parser, slugvars>>

RenderNext ==
    \E t \in Threads :
        \/ RenderCall(t)
        \/ RenderOk(t)
        \/ RenderPanic(t)
        \/ RenderErr(t)
        \/ TreePanic(t)

SpecRender == RenderInit /\ [][RenderNext]_vars

\* ------------------------------------------------------------- block rules
\* A line of the BlockState is its indent relative to the block being
\* scanned (line_indent: negative when the line leaves the block, max_indent
\* or more when it is indented code) and its text after the indentation
\* (get_line), over the fence markers backtick ("bt") and tilde, dashes,
\* spaces and other text "x".
MaxLines == 3
max_indent == 4

LineTexts ==
    { <<>>, <<"x">>,
      <<"bt", "bt", "bt">>, <<"bt", "bt", "bt", "bt">>, <<"~", "~", "~">>,
      <<"bt", "bt", "bt", " ">>, <<"bt", "bt", "bt", "x">>,
      <<"bt", "bt", "bt", "x", "bt", "bt", "bt">>,
      <<"-", "-", "-">>, <<"-", "-", "-", "-">>, <<"-", "-", "-", "x">> }

Lines ==
    [indent : {0}, text : LineTexts]
      \cup { [indent |-> max_indent, text |-> <<"bt", "bt", "bt">>],
             [indent |-> -1, text |-> <<"bt", "bt", "bt">>],
             [indent |-> -1, text |-> <<"x">>],
             [indent |-> -1, text |-> <<>>] }

\* BlockState::line_indent
line_indent(st, n) == st.lines[n + 1].indent

\* BlockState::get_line
get_line(st, n) == st.lines[n + 1].text

\* BlockState::get_lines(begin, end, ..): the lines begin .. end - 1
get_lines(st, begin, end) == SubSeq(st.lines, begin + 1, end)

RECURSIVE MarkerRun(_, _, _)
RECURSIVE MatchesCount(_, _)
RECURSIVE FenceEnd(_, _, _, _)
RECURSIVE FrontMatterEnd(_, _, _)

\* "scan marker length": how many times marker repeats in line from index i on
MarkerRun(line, marker, i) ==
    IF i <= Len(line) /\ line[i] = marker THEN 1 + MarkerRun(line, marker, i + 1) ELSE 0

\* line.matches(pat).count(): occurrences that do not overlap
MatchesCount(line, pat) ==
    IF Len(line) < Len(pat) THEN 0
    ELSE IF SubSeq(line, 1, Len(pat)) = pat
    THEN 1 + MatchesCount(SubSeq(line, Len(pat) + 1, Len(line)), pat)
    ELSE MatchesCount(SubSeq(line, 2, Len(line)), pat)

\* FenceScanner::get_header; Some((marker, len, params)) is a record in a tuple
get_header(st) ==
    LET line == get_line(st, st.line)
        marker == line[1]
        len == MarkerRun(line, marker, 1)
        params == SubSeq(line, len + 1, Len(line))
    IN IF line_indent(st, st.line) >= max_indent THEN None
       ELSE IF line = <<>> THEN None
       ELSE IF marker # "~" /\ marker # "bt" THEN None
       ELSE IF len < 3 THEN None
       ELSE IF marker = "bt" /\ \E i \in DOMAIN params : params[i] = marker THEN None
       ELSE <<[marker |-> marker, len |-> len, params |-> params]>>

\* InkjetFenceScanner::get_header
inkjet_get_header(st) ==
    LET line == get_line(st, st.line)
        marker == line[1]
        len == MarkerRun(line, marker, 1)
        params == SubSeq(line, len + 1, Len(line))
    IN IF line_indent(st, st.line) >= max_indent THEN None
       ELSE IF line = <<>> THEN None
       ELSE IF marker # "~" /\ marker # "bt" THEN None
       ELSE IF MatchesCount(line, <<"bt", "bt", "bt">>) # 1 THEN None
       ELSE IF len < 3 THEN None
       ELSE IF marker = "bt" /\ \E i \in DOMAIN params : params[i] = marker THEN None
       ELSE <<[marker |-> marker, len |-> len, params |-> params]>>

\* the body of the 'outer loop with any marker run of three accepted
ClosesFence_any_length(st, n, marker, len) ==
    LET line == get_line(st, n)
        len_end == MarkerRun(line, marker, 1)
    IN /\ line # <<>>
       /\ line[1] = marker
       /\ line_indent(st, n) < max_indent
       /\ len_end >= 3
       /\ \A i \in (len_end + 1)..Len(line) : line[i] \in {" ", "tab"}

\* the body of the 'outer loop for line n: the line is a closing fence
ClosesFence(st, n, marker, len) ==
    LET line == get_line(st, n)
        len_end == MarkerRun(line, marker, 1)
    IN /\ line # <<>>
       /\ line[1] = marker
       /\ line_indent(st, n) < max_indent
       /\ len_end >= len
       /\ \A i \in (len_end + 1)..Len(line) : line[i] \in {" ", "tab"}

\* "search end of block": the 'outer loop, entered with next_line
FenceEnd(st, marker, len, next_line) ==
    LET n == next_line + 1 IN
    IF n >= st.line_max THEN [next_line |-> n, have_end_marker |-> FALSE]
    ELSE IF get_line(st, n) # <<>> /\ line_indent(st, n) < 0
    THEN [next_line |-> n, have_end_marker |-> FALSE]
    ELSE IF ClosesFence(st, n, marker, len)
    THEN [next_line |-> n, have_end_marker |-> TRUE]
    ELSE FenceEnd(st, marker, len, n)

\* the node and the lines consumed that both fence rules build
FenceResult(st, kind, header) ==
    LET end == FenceEnd(st, header.marker, header.len, st.line) IN
    << [kind |-> kind, info |-> header.params, marker |-> header.marker,
        marker_len |-> header.len,
        content |-> get_lines(st, st.line + 1, end.next_line)],
       end.next_line - st.line + (IF end.have_end_marker THEN 1 ELSE 0) >>

\* FenceScanner::check: Some(()) is <<"()">>
FenceScanner_check(st) == IF get_header(st) = None THEN None ELSE <<"()">>

\* FenceScanner::run, unclosed fence rejected
FenceScanner_run_closed_only(st) ==
    LET header == get_header(st) IN
    IF header = None THEN None
    ELSE IF ~FenceEnd(st, header[1].marker, header[1].len, st.line).have_end_marker THEN None
    ELSE FenceResult(st, "CodeFence", header[1])

\* FenceScanner::run
FenceScanner_run(st) ==
    LET header == get_header(st) IN
    IF header = None THEN None ELSE FenceResult(st, "CodeFence", header[1])

\* InkjetFenceScanner::run
InkjetFenceScanner_run(st) ==
    LET header == inkjet_get_header(st) IN
    IF header = None THEN None ELSE FenceResult(st, "InkjetCodeFence", header[1])

\* the loop of FrontMatterBlockScanner::run, entered with next_line:
\* Some(line that starts with the opening dashes)
FrontMatterEnd(st, opening, next_line) ==
    LET n == next_line + 1 IN
    IF n >= st.line_max THEN None
    ELSE IF starts_with(get_line(st, n), opening) THEN <<n>>
    ELSE FrontMatterEnd(st, opening, n)

\* what FrontMatterBlockScanner::run does after its test of the parent node
\* and of the line number
FrontMatterFrom(st) ==
    LET line == get_line(st, st.line)
        opening == SubSeq(line, 1, MarkerRun(line, "-", 1))
        end == FrontMatterEnd(st, opening, st.line)
    IN IF ~starts_with(opening, <<"-", "-", "-">>) THEN None
       ELSE IF end = None THEN None
       ELSE << [kind |-> "FrontMatter", content |-> get_lines(st, st.line + 1, end[1])],
               end[1] + 1 >>

\* FrontMatterBlockScanner::run, without the test of the parent node
FrontMatterBlockScanner_run_any_parent(st) ==
    IF st.line # 0 THEN None ELSE FrontMatterFrom(st)

\* FrontMatterBlockScanner::run, without the test of the line number
FrontMatterBlockScanner_run_any_line(st) ==
    IF st.node # "Root" THEN None ELSE FrontMatterFrom(st)

\* FrontMatterBlockScanner::run
FrontMatterBlockScanner_run(st) ==
    IF st.node # "Root" THEN None
    ELSE IF st.line # 0 THEN None
    ELSE FrontMatterFrom(st)

Documents == UNION {[1..n -> Lines] : n \in 1..MaxLines}

\* the block parser has reached line `line` of the block that ends before
\* line_max, in the document root or in a nested block; it runs the rules
\* only at a line that belongs to the block (indent not negative), and
\* no line is indented less than the document root
BlockInit ==
    /\ root_ext = ExtDefault
    /\ ret = None
    /\ op = <<"parse", "">>
    /\ issued = NoIssued
    /\ nodes = <<NewNode("Root", "", 0, 0, FALSE)>>
    /\ kids = << <<>> >>
    /\ phase = "blockrule"
    /\ open = <<RootId>>
    /\ frames = <<>>
    /\ cur = 0
    /\ aborted = FALSE
    /\ LibIdle
    /\ \E lines \in Documents, node \in {"Root", "Blockquote"} :
         \E line_max \in {Len(lines) - 1, Len(lines)}, line \in {0, 1} :
            /\ line < line_max
            /\ lines[line + 1].indent >= 0
            /\ node = "Root" => \A n \in DOMAIN lines : lines[n].indent >= 0
            /\ state = [lines |-> lines, line |-> line, line_max |-> line_max, node |-> node]

\* what the call of a block rule leaves: the BlockState is as before
BlockRuleLeaves(r, name) ==
    /\ phase' = "blockruled"
    /\ ret' = r
    /\ op' = <<name, "">>
    /\ UNCHANGED <<root_ext, issued, nodes, kids, open, frames, cur, scanvars, libvars>>

\* the block parser asks the rule: FenceScanner::run
FenceRun ==
    /\ phase = "blockrule"
    /\ BlockRuleLeaves(FenceScanner_run(state), "fence")

\* the block parser asks the rule whether it can start here: FenceScanner::check
FenceCheck ==
    /\ phase = "blockrule"
    /\ BlockRuleLeaves(FenceScanner_check(state), "fence_check")

\* the block parser asks the rule: InkjetFenceScanner::run
InkjetFenceRun ==
    /\ phase = "blockrule"
    /\ BlockRuleLeaves(InkjetFenceScanner_run(state), "inkjet")

\* the block parser asks the rule: FrontMatterBlockScanner::run
FrontMatterRun ==
    /\ phase = "blockrule"
    /\ BlockRuleLeaves(FrontMatterBlockScanner_run(state), "front_matter")

BlockNext ==
    \/ FenceCheck
    \/ FenceRun
    \/ InkjetFenceRun
    \/ FrontMatterRun

SpecBlock == BlockInit /\ [][BlockNext]_vars

\* ----------------------------------------------------- enabling plugins
\* The plugin objects handed to enable: a Plugin with any name, or one of
\* its subclasses, whose constructor fixes the name.  Four of the names
\* _enable_str knows stand for all of them.
MaxEnables == 3

KnownNames == {"nl2br", "citation", "fence", "kagi_link"}
Names == KnownNames \cup {"bogus", ""}

Plugins ==
    [class : {"Plugin"}, name : Names]
      \cup { [class |-> "LinkExtensionPlugin", name |-> "kagi_link"],
             [class |-> "CitationExtensionPlugin", name |-> "citation"] }

\* the add functions of the plugins: the rules and the extension state
\* they install in the parser
add(p, rules, ext) ==
    [p EXCEPT !.rules = @ \cup rules, !.ext = @ \cup ext]

\* the result of a call on the parser: the parser it leaves and Ok(()) or
\* Err(message)
Result(p, r) == [parser |-> p, ret |-> r]

\* MDParser::_enable_str
_enable_str(p, name) ==
    CASE name = "nl2br" -> Result(add(p, {"NL2BRInlineScanner"}, {}), <<"Ok">>)
      [] name = "citation" ->
           Result(add(p, {"CitationInlineScanner"}, {"CitationExtensionPlugin"}), <<"Ok">>)
      [] name = "fence" -> Result(add(p, {"FenceScanner"}, {}), <<"Ok">>)
      [] name = "kagi_link" ->
           Result(add(p, {"LinkScanner"}, {"LinkExtensionPlugin"}), <<"Ok">>)
      [] OTHER -> Result(p, <<"Err", <<"Unknown plugin: ", name>>>>)

\* MDParser::_enable with the name recorded before the plugin is installed
_enable_name_first(p, plugin) ==
    LET named == [p EXCEPT !.enabled_plugin_names = Append(@, plugin.name)]
        installed ==
            CASE plugin.class = "LinkExtensionPlugin" ->
                   Result(add(named, {"LinkScanner"}, {"LinkExtensionPlugin"}), <<"Ok">>)
              [] plugin.class = "CitationExtensionPlugin" ->
                   Result(add(named, {"CitationInlineScanner"}, {"CitationExtensionPlugin"}),
                          <<"Ok">>)
              [] OTHER -> _enable_str(named, plugin.name)
    IN installed

\* MDParser::_enable
_enable(p, plugin) ==
    LET installed ==
            CASE plugin.class = "LinkExtensionPlugin" ->
                   Result(add(p, {"LinkScanner"}, {"LinkExtensionPlugin"}), <<"Ok">>)
              [] plugin.class = "CitationExtensionPlugin" ->
                   Result(add(p, {"CitationInlineScanner"}, {"CitationExtensionPlugin"}),
                          <<"Ok">>)
              [] OTHER -> _enable_str(p, plugin.name)
    IN IF installed.ret[1] = "Err" THEN installed
       ELSE Result([installed.parser EXCEPT !.enabled_plugin_names = Append(@, plugin.name)],
                   <<"Ok">>)

RECURSIVE enable_many(_, _)
\* MDParser::enable_many: the loop stops at the first error
enable_many(p, plugins) ==
    IF plugins = <<>> THEN Result(p, <<"Ok">>)
    ELSE LET first == _enable(p, plugins[1]) IN
         IF first.ret[1] = "Err" THEN first
         ELSE enable_many(first.parser, Tail(plugins))

\* MDParser::new("zero")
EnableInit ==
    /\ root_ext = ExtDefault
    /\ ret = None
    /\ op = <<"new", "zero">>
    /\ issued = NoIssued
    /\ nodes = <<NewNode("Root", "", 0, 0, FALSE)>>
    /\ kids = << <<>> >>
    /\ phase = "enable"
    /\ open = <<>>
    /\ frames = <<>>
    /\ cur = 0
    /\ state = NoState
    /\ aborted = FALSE
    /\ LibIdle

\* MDParser::enable
Enable(plugin) ==
    /\ phase = "enable"
    /\ Len(parser.enabled_plugin_names) < MaxEnables
    /\ parser' = _enable(parser, plugin).parser
    /\ ret' = _enable(parser, plugin).ret
    /\ op' = <<"enable", plugin.name>>
    /\ UNCHANGED <<root_ext, issued, treevars, scanvars, LAST_PANIC, threads, slugvars>>

\* MDParser::enable_many with two plugins
EnableMany(plugins) ==
    /\ phase = "enable"
    /\ Len(parser.enabled_plugin_names) + Len(plugins) <= MaxEnables
    /\ parser' = enable_many(parser, plugins).parser
    /\ ret' = enable_many(parser, plugins).ret
    /\ op' = <<"enable_many", plugins[1].name>>
    /\ UNCHANGED <<root_ext, issued, treevars, scanvars, LAST_PANIC, threads, slugvars>>

EnableNext ==
    \/ \E plugin \in Plugins : Enable(plugin)
    \/ \E first \in Plugins, second \in Plugins : EnableMany(<<first, second>>)

SpecEnable == EnableInit /\ [][EnableNext]_vars

\* -------------------------------------------------------------- Slugger
\* Heading texts over a letter in both cases, a digit, the space, the dash
\* and a punctuation mark; at most MaxSlugs slugs are made between resets.
MaxSlugs == 3

SlugInputs ==
    { <<>>, <<"a">>, <<"A">>, <<"1">>, <<"!">>, <<"a", "!">>,
      <<"a", " ", "1">>, <<"a", "-", "1">>, <<"A", "-", "1", " ", "1">> }

\* str::to_lowercase, on one character
to_lowercase(c) == IF c = "A" THEN "a" ELSE c

\* char::is_alphabetic
is_alphabetic(c) == c \in {"a", "A"}

\* the characters of the alphabet that REMOVE_PAT matches: separators,
\* dash punctuation and other punctuation
REMOVE_PAT == {" ", "-", "!"}

\* the closure given to REMOVE_RE.replace_all, and the characters it is
\* not called for
Replacement(c) ==
    IF c \notin REMOVE_PAT THEN <<c>>
    ELSE IF c = " " \/ c = "-" THEN <<"-">>
    ELSE IF is_alphabetic(c) THEN <<c>>
    ELSE <<>>

\* github_slugger::slug
slug(input) ==
    LET s == [i \in DOMAIN input |-> to_lowercase(input[i])]
        replaced == Flatten([i \in DOMAIN s |-> Replacement(s[i])])
    IN [i \in DOMAIN replaced |-> IF is_whitespace(replaced[i]) THEN "-" ELSE replaced[i]]

RECURSIVE to_string(_)
\* the decimal digits of a number, as format! writes them
to_string(i) ==
    LET digits == <<"0", "1", "2", "3", "4", "5", "6", "7", "8", "9">> IN
    IF i < 10 THEN <<digits[i + 1]>>
    ELSE to_string(i \div 10) \o <<digits[(i % 10) + 1]>>

\* format!("{}-{}", base, i)
format(base, i) == base \o <<"-">> \o to_string(i)

RECURSIVE SlugLoop(_, _, _, _)
\* the while loop of Slugger::slug
SlugLoop(slugs, base, result, i) ==
    IF result \in slugs THEN SlugLoop(slugs, base, format(base, i), i + 1) ELSE result

\* Slugger::slug that records the base and not the result
Slugger_slug_base_recorded(self, s) ==
    LET base == slug(s)
        result == SlugLoop(self.slugs, base, base, 1)
    IN [slugger |-> [self EXCEPT !.slugs = @ \cup {base}], ret |-> result]

\* Slugger::slug: the Slugger it leaves and the slug it returns
Slugger_slug(self, s) ==
    LET base == slug(s)
        result == SlugLoop(self.slugs, base, base, 1)
    IN [slugger |-> [self EXCEPT !.slugs = @ \cup {result}], ret |-> result]

\* Slugger::reset
Slugger_reset(self) == [self EXCEPT !.slugs = {}]

\* Slugger::default()
SlugInit ==
    /\ root_ext = ExtDefault
    /\ ret = None
    /\ op = <<"default", <<>>>>
    /\ issued = NoIssued
    /\ nodes = <<NewNode("Root", "", 0, 0, FALSE)>>
    /\ kids = << <<>> >>
    /\ phase = "slug"
    /\ open = <<>>
    /\ frames = <<>>
    /\ cur = 0
    /\ state = NoState
    /\ aborted = FALSE
    /\ LibIdle

\* a call of Slugger::slug
SlugCall(s) ==
    /\ phase = "slug"
    /\ Len(returned) < MaxSlugs
    /\ slugger' = Slugger_slug(slugger, s).slugger
    /\ ret' = Slugger_slug(slugger, s).ret
    /\ returned' = Append(returned, Slugger_slug(slugger, s).ret)
    /\ op' = <<"slug", s>>
    /\ UNCHANGED <<root_ext, issued, treevars, scanvars, LAST_PANIC, threads, parser>>

\* a call of Slugger::reset
SlugReset ==
    /\ phase = "slug"
    /\ slugger' = Slugger_reset(slugger)
    /\ returned' = <<>>
    /\ ret' = None
    /\ op' = <<"reset", <<>>>>
    /\ UNCHANGED <<root_ext, issued, treevars, scanvars, LAST_PANIC, threads, parser>>

SlugNext ==
    \/ \E s \in SlugInputs : SlugCall(s)
    \/ SlugReset

SpecSlug == SlugInit /\ [][SlugNext]_vars

\* ----------------------------------------------------------- preprocess
\* Source texts of at most MaxSrcLen pieces: the citation brackets, two
\* digits, other text, and a whole marker as one piece, so that a text
\* holds several markers.  reenumerate_citations is applied at most
\* MaxPasses times in a row.
MaxSrcLen == 4
MaxPasses == 2

CitationPieces == CitationChars \cup {OPEN_CITATION \o <<"1">> \o CLOSE_CITATION}

SrcTexts == {Flatten(cs) : cs \in UNION {[1..n -> CitationPieces] : n \in 0..MaxSrcLen}}

\* the class \d, over the digits that texts and counters are written with
is_digit(c) == c \in {"0", "1", "2", "3", "4", "5", "6", "7", "8", "9"}

RECURSIVE DigitRun(_, _)
\* `\d+` from index i on: the number of digits
DigitRun(src, i) ==
    IF i <= Len(src) /\ is_digit(src[i]) THEN 1 + DigitRun(src, i + 1) ELSE 0

\* the literal lit of a pattern at index i
LiteralAt(src, i, lit) ==
    /\ i + Len(lit) - 1 <= Len(src)
    /\ SubSeq(src, i, i + Len(lit) - 1) = lit

\* CITATION_REGEX at index i: the index of the last byte of the match, 0
\* when there is none
CITATION_REGEX(src, i) ==
    LET digits == DigitRun(src, i + Len(OPEN_CITATION))
        close == i + Len(OPEN_CITATION) + digits
    IN IF /\ LiteralAt(src, i, OPEN_CITATION)
          /\ digits >= 1
          /\ LiteralAt(src, close, CLOSE_CITATION)
       THEN close + Len(CLOSE_CITATION) - 1
       ELSE 0

RECURSIVE replace_all(_, _, _)
\* CITATION_REGEX.replace_all with the closure of reenumerate_citations,
\* from index i on: every match, left to right, becomes the marker of the
\* counter, which then goes up by one
replace_all(src, i, counter) ==
    IF i > Len(src) THEN <<>>
    ELSE IF CITATION_REGEX(src, i) # 0
    THEN OPEN_CITATION \o to_string(counter) \o CLOSE_CITATION
           \o replace_all(src, CITATION_REGEX(src, i) + 1, counter + 1)
    ELSE <<src[i]>> \o replace_all(src, i + 1, counter)

\* reenumerate_citations with the counter started at 1
reenumerate_citations_from_one(src) == replace_all(src, 1, 1)

\* reenumerate_citations
reenumerate_citations(src) == replace_all(src, 1, 0)

\* process_contact_info: EMAIL_REGEX needs an "@" and PHONE_NUMBER_REGEX a
\* separator between groups of digits; a text without them is returned as
\* it is (the only texts it is given here)
process_contact_info(src) == src

\* preprocess
preprocess(src, enabled_plugins) ==
    LET contains(name) == \E i \in DOMAIN enabled_plugins : enabled_plugins[i] = name
        contact == IF contains("kagi_contact_info") THEN process_contact_info(src) ELSE src
    IN IF contains("citation") THEN reenumerate_citations(contact) ELSE contact

\* a parser with no plugin or one plugin enabled is about to render a text
PreprocessInit ==
    /\ root_ext = ExtDefault
    /\ ret = None
    /\ op = <<"render", "">>
    /\ issued = NoIssued
    /\ nodes = <<NewNode("Root", "", 0, 0, FALSE)>>
    /\ kids = << <<>> >>
    /\ phase = "preprocess"
    /\ open = <<>>
    /\ frames = <<>>
    /\ cur = 0
    /\ aborted = FALSE
    /\ LAST_PANIC = None
    /\ threads = <<>>
    /\ slugger = SluggerDefault
    /\ returned = <<>>
    /\ parser \in {NoParser} \cup {_enable(NoParser, plugin).parser : plugin \in Plugins}
    /\ \E src \in SrcTexts :
         state = [src |-> src, pos |-> 0, pos_max |-> Len(src)]

\* MDParser::render calls preprocess on the source text
Preprocess ==
    /\ phase = "preprocess"
    /\ ret' = preprocess(state.src, parser.enabled_plugin_names)
    /\ phase' = "preprocessed"
    /\ op' = <<"preprocess", "">>
    /\ UNCHANGED <<root_ext, issued, nodes, kids, open, frames, cur, scanvars, libvars>>

\* reenumerate_citations applied to the text, then to its own result
Reenumerate ==
    /\ phase \in {"preprocess", "reenumerated"}
    /\ cur < MaxPasses
    /\ ret' = reenumerate_citations(IF cur = 0 THEN state.src ELSE ret)
    /\ cur' = cur + 1
    /\ phase' = "reenumerated"
    /\ op' = <<"reenumerate_citations", "">>
    /\ UNCHANGED <<root_ext, issued, nodes, kids, open, frames, scanvars, libvars>>

PreprocessNext ==
    \/ Preprocess
    \/ Reenumerate

SpecPreprocess == PreprocessInit /\ [][PreprocessNext]_vars

\* ================================================================ claims
Range(s) == {s[i] : i \in DOMAIN s}

\* ---- SpecMap: FootnoteMap under any sequence of its operations

\* C1: add_def for a label that already has a definition returns None and
\* leaves the map as it is, no operation ever rebinds a label, and add_ref
\* for a defined label returns the definition id the label was first given.
C1_DuplicateLabelPolicy ==
    [][ /\ \A l \in DOMAIN FM.label_to_def :
             /\ l \in DOMAIN FM'.label_to_def
             /\ FM'.label_to_def[l] = FM.label_to_def[l]
        /\ (op'[1] = "add_def" /\ op'[2] \in DOMAIN FM.label_to_def)
             => (ret' = None /\ root_ext' = root_ext)
        /\ (op'[1] = "add_ref" /\ op'[2] \in DOMAIN FM.label_to_def)
             => (ret' # None /\ ret'[1] = FM.label_to_def[op'[2]]) ]_vars

\* a duplicate add_def was rejected after both labels were defined and the
\* first of them was referenced
C1_Witness ==
    /\ op[1] = "add_def"
    /\ ret = None
    /\ FM.def_counter = 2
    /\ FM.ref_counter >= 1

\* C2: every reference id in 1..ref_counter is recorded once, under exactly
\* one definition id, and every definition id with recorded references is
\* an allocated one, in 1..def_counter.
C2_RefsRecordedOnce ==
    /\ \A r \in 1..FM.ref_counter :
         /\ Cardinality({d \in DOMAIN FM.def_to_refs : r \in Range(FM.def_to_refs[d])}) = 1
         /\ \A d \in DOMAIN FM.def_to_refs :
              Cardinality({i \in DOMAIN FM.def_to_refs[d] : FM.def_to_refs[d][i] = r}) <= 1
    /\ \A d \in DOMAIN FM.def_to_refs :
         /\ d \in 1..FM.def_counter
         /\ Range(FM.def_to_refs[d]) \subseteq 1..FM.ref_counter

\* references recorded under a labelled and under an inline definition
C2_Witness ==
    /\ FM.ref_counter = 3
    /\ Cardinality(DOMAIN FM.def_to_refs) = 2
    /\ \E l \in DOMAIN FM.label_to_def : Len(referenced_by(FM, FM.label_to_def[l])) = 2

\* ---- Spec: parse of a document followed by the collection pass

\* the FootnoteMap a rule works on after get_or_insert_default
MapSeen == get_or_insert_default(root_ext)["FootnoteMap"]

NodeIds == DOMAIN nodes
IsDef(n) == nodes[n].kind = "FootnoteDefinition"
IsRef(n) == nodes[n].kind = "FootnoteReference"

\* C3: a reference to a label without definition is rejected: add_ref
\* returns None, allocates no reference id and records nothing, and
\* FootnoteReferenceScanner::run creates no node.
C3_UnresolvedRejected ==
    [][ (op'[1] = "reference" /\ op'[2] \notin DOMAIN MapSeen.label_to_def)
          => /\ ret' = None
             /\ FM' = MapSeen
             /\ issued' = issued
             /\ nodes' = nodes
             /\ kids' = kids ]_vars

\* an unresolved reference was rejected while another label is defined
C3_Witness ==
    /\ op[1] = "reference"
    /\ ret = None
    /\ op[2] \notin DOMAIN FM.label_to_def
    /\ DOMAIN FM.label_to_def # {}

\* C4: add_inline_def returns (old def_counter + 1, old ref_counter + 1),
\* neither id was handed out before, referenced_by(def_id) is [ref_id]
\* right afterwards, and the definition and reference node of every
\* InlineFootnote carry one id pair that the map records.
C4_InlineAllocatesPair ==
    [][ /\ op'[1] = "inline_footnote"
          => /\ ret' = <<MapSeen.def_counter + 1, MapSeen.ref_counter + 1>>
             /\ ret'[1] \notin issued.defs
             /\ ret'[2] \notin issued.refs
             /\ referenced_by(FM', ret'[1]) = <<ret'[2]>>
             /\ nodes'[Top(open')] = NewNode("FootnoteDefinition", "", ret'[1], 0, TRUE)
        /\ op'[1] = "inline_footnote_end"
          => LET outer == Len(nodes')
                 d == kids'[outer][1]
                 r == kids'[outer][2]
             IN /\ nodes'[outer].kind = "InlineFootnote"
                /\ Len(kids'[outer]) = 2
                /\ d = Top(open)
                /\ nodes'[d].kind = "FootnoteDefinition" /\ nodes'[d].inline
                /\ nodes'[r].kind = "FootnoteReference"
                /\ nodes'[r].def_id = nodes'[d].def_id
                /\ nodes'[d].def_id \in issued.defs
                /\ referenced_by(FM', nodes'[d].def_id) = <<nodes'[r].ref_id>> ]_vars

\* an inline footnote has been completed after a labelled definition and a
\* reference to it took ids of their own
C4_Witness ==
    /\ op[1] = "inline_footnote_end"
    /\ ret = <<2, 2>>
    /\ \E n \in NodeIds : IsDef(n) /\ ~nodes[n].inline
    /\ \E n \in NodeIds : IsRef(n) /\ nodes[n].label # ""

\* ---- the collection pass, as a step from the parsed tree to the final tree

\* position of node n in the pre-order traversal of the tree k (0 if absent)
PreOrderPos(k, n) ==
    LET order == PreOrder(k, RootId)
        at == {i \in DOMAIN order : order[i] = n}
    IN IF at = {} THEN 0 ELSE CHOOSE i \in at : TRUE

\* the nodes of the tree k
TreeNodes(k) == Range(PreOrder(k, RootId))

\* the parent of node n in the tree k (0 for the root or a detached node)
ParentIn(k, n) ==
    LET ps == {p \in DOMAIN k : n \in Range(k[p])}
    IN IF ps = {} THEN 0 ELSE CHOOSE p \in ps : TRUE

\* the footnotes container of the final tree is the node added last, if any
HasContainer == nodes'[Len(nodes')].kind = "FootnotesContainerNode"
Collected == IF HasContainer THEN kids'[Len(nodes')] ELSE <<>>
\* the definitions held anywhere below the container
Held ==
    IF HasContainer
    THEN {n \in Range(PreOrder(kids', Len(nodes'))) : nodes'[n].kind = "FootnoteDefinition"}
    ELSE {}

\* the FootnoteMap the pass reads
PassMap == IF "FootnoteMap" \in DOMAIN root_ext THEN FM ELSE FootnoteMapDefault

\* C5: after the collection pass every FootnoteReference left in the tree
\* has the def_id of exactly one FootnoteDefinition held in the footnotes
\* container, and no definition without recorded references is a child of
\* the container.
C5_ReferentialIntegrity ==
    [][ op'[1] = "collect"
          => /\ \A r \in TreeNodes(kids') :
                  nodes'[r].kind = "FootnoteReference"
                    => Cardinality({d \in Held : nodes'[d].def_id = nodes'[r].def_id}) = 1
             /\ \A i \in DOMAIN Collected :
                  referenced_by(PassMap, nodes'[Collected[i]].def_id) # <<>> ]_vars

\* C6: the pass detaches every FootnoteDefinition of the tree from its
\* parent, at any depth: a definition that is still in the tree afterwards
\* is a child of the container, and a definition becomes a child of the
\* container if and only if referenced_by(def_id) is not empty.
C6_EveryDefinitionDetached ==
    [][ op'[1] = "collect"
          => \A d \in TreeNodes(kids) :
               IsDef(d)
                 => /\ d \in TreeNodes(kids')
                         => (HasContainer /\ ParentIn(kids', d) = Len(nodes'))
                    /\ (d \in Range(Collected))
                         <=> (referenced_by(PassMap, nodes[d].def_id) # <<>>) ]_vars

\* C7: the children of the container are in the order in which their nodes
\* come in the pre-order traversal of the tree before the pass.
C7_EncounterOrder ==
    [][ op'[1] = "collect"
          => \A i, j \in DOMAIN Collected :
               i < j => PreOrderPos(kids, Collected[i]) < PreOrderPos(kids, Collected[j]) ]_vars

\* C8: without a FootnoteMap in the root extension set the pass changes
\* neither the tree nor the root extension set.
C8_NoMapNoOp ==
    [][ (op'[1] = "collect" /\ "FootnoteMap" \notin DOMAIN root_ext)
          => /\ nodes' = nodes
             /\ kids' = kids
             /\ root_ext' = root_ext ]_vars

\* the parsed tree of "[^a]\n\n[^a]: note": a paragraph with the reference,
\* then the definition with its paragraph and text
ScenarioParsed ==
    /\ phase = "core"
    /\ kids = << <<2, 3>>, <<5>>, <<4>>, <<6>>, <<>>, <<>> >>
    /\ nodes[2].kind = "Paragraph"
    /\ nodes[3] = NewNode("FootnoteDefinition", "a", 1, 0, FALSE)
    /\ nodes[4].kind = "Paragraph"
    /\ nodes[5].kind = "FootnoteReference"
    /\ nodes[6].kind = "Text"

\* C9: every labelled definition is registered before the first inline rule
\* runs, so "[^L]" becomes a reference node exactly when the document has a
\* definition of L, before or after it, and the node carries the id of
\* that definition; "[^a]\n\n[^a]: note" gives a reference with definition
\* id 1 and one collected definition with referenced_by = [1].
C9_ForwardReferenceResolves ==
    [][ /\ phase' \in {"inline", "core"}
          => \A d \in DOMAIN nodes' :
               (nodes'[d].kind = "FootnoteDefinition" /\ ~nodes'[d].inline)
                 => /\ nodes'[d].label \in DOMAIN FM'.label_to_def
                    /\ FM'.label_to_def[nodes'[d].label] = nodes'[d].def_id
        /\ op'[1] = "reference"
          => (ret' # None
                <=> \E d \in DOMAIN nodes :
                      nodes[d].kind = "FootnoteDefinition" /\ nodes[d].label = op'[2])
        /\ \A r \in DOMAIN nodes' :
             (nodes'[r].kind = "FootnoteReference" /\ nodes'[r].label # "")
               => /\ Cardinality({d \in DOMAIN nodes' :
                                    /\ nodes'[d].kind = "FootnoteDefinition"
                                    /\ nodes'[d].label = nodes'[r].label}) = 1
                  /\ \A d \in DOMAIN nodes' :
                       (nodes'[d].kind = "FootnoteDefinition"
                          /\ nodes'[d].label = nodes'[r].label)
                         => nodes'[d].def_id = nodes'[r].def_id
        /\ (ScenarioParsed /\ op'[1] = "collect")
          => /\ nodes[5].def_id = 1
             /\ HasContainer
             /\ Collected = <<3>>
             /\ kids'[RootId] = <<2, Len(nodes')>>
             /\ referenced_by(FM', nodes'[3].def_id) = <<1>> ]_vars

\* the scenario document after the collection pass: the reference came
\* before its definition and the container holds that definition
C9_Witness ==
    /\ phase = "done"
    /\ kids = << <<2, 7>>, <<5>>, <<4>>, <<6>>, <<>>, <<>>, <<3>> >>
    /\ nodes[5] = NewNode("FootnoteReference", "a", 1, 1, FALSE)
    /\ nodes[3] = NewNode("FootnoteDefinition", "a", 1, 0, FALSE)
    /\ nodes[7].kind = "FootnotesContainerNode"
    /\ referenced_by(FM, 1) = <<1>>

\* ---- SpecScan: one call of InlineFootnoteScanner

\* the span that the call was given had "^[" at pos and no "]" after it
Unclosed(st) ==
    /\ StartsWithMarker(st)
    /\ \A i \in (st.pos + 3)..st.pos_max : st.src[i] # "]"

\* C10: on a span that starts with "^[" check and run complete without a
\* panic and leave state.pos as it was, and when the span has no closing
\* "]" they return no-match.
C10_UnclosedDegrades ==
    [][ (op'[1] \in {"check", "run"} /\ StartsWithMarker(state))
          => /\ ~aborted'
             /\ state'.pos = state.pos
             /\ Unclosed(state) => ret' = None ]_vars

RECURSIVE UnderDefinition(_)
\* node n of the tree before the pass lies below a FootnoteDefinition
UnderDefinition(n) ==
    LET p == ParentIn(kids, n) IN
    IF p = 0 THEN FALSE ELSE IsDef(p) \/ UnderDefinition(p)

\* the definitions the pass collects: those of the tree that the walk
\* reaches (none above them is a definition) and that have references
CollectedDefs ==
    {d \in TreeNodes(kids) :
        /\ IsDef(d)
        /\ ~UnderDefinition(d)
        /\ nodes[d].def_id # 0
        /\ referenced_by(PassMap, nodes[d].def_id) # <<>>}

\* the FootnotesContainerNode nodes after the pass
Containers == {n \in DOMAIN nodes' : nodes'[n].kind = "FootnotesContainerNode"}

\* C17: when the pass collects at least one definition it adds exactly one
\* FootnotesContainerNode, as the last child of the root, holding the
\* collected definitions, and the root children that remain keep their
\* relative order; when it collects none there is no container.
C17_OneContainerLast ==
    [][ op'[1] = "collect" =>
          LET after == kids'[RootId]
              rest == IF CollectedDefs = {} THEN after
                      ELSE SubSeq(after, 1, Len(after) - 1)
          IN /\ CollectedDefs = {} => Containers = {}
             /\ CollectedDefs # {} =>
                  /\ Cardinality(Containers) = 1
                  /\ after # <<>>
                  /\ after[Len(after)] \in Containers
                  /\ Range(kids'[after[Len(after)]]) = CollectedDefs
                  /\ \A p \in DOMAIN kids' \ {RootId} : Range(kids'[p]) \cap Containers = {}
             /\ rest = SelectSeq(kids[RootId], LAMBDA c : c \in Range(rest)) ]_vars

\* the pass has added the container after two root children that remain
C17_Witness ==
    /\ op[1] = "collect"
    /\ nodes[Len(nodes)].kind = "FootnotesContainerNode"
    /\ Len(kids[RootId]) = 3
    /\ kids[RootId][3] = Len(nodes)
    /\ kids[Len(nodes)] # <<>>

\* C18: after the pass a collected definition flagged inline has exactly
\* one child, a Paragraph the pass made, whose children are the original
\* children of the definition in their order; a collected definition that
\* is not flagged inline has its children unchanged.
C18_InlineWrapped ==
    [][ op'[1] = "collect" =>
          \A i \in DOMAIN Collected :
             LET d == Collected[i] IN
             IF nodes[d].inline
             THEN /\ Len(kids'[d]) = 1
                  /\ kids'[d][1] > Len(nodes)
                  /\ nodes'[kids'[d][1]].kind = "Paragraph"
                  /\ kids'[kids'[d][1]] = kids[d]
             ELSE kids'[d] = kids[d] ]_vars

\* the container holds an inline definition whose paragraph has the body
\* and a block definition with its own children
C18_Witness ==
    /\ op[1] = "collect"
    /\ nodes[Len(nodes)].kind = "FootnotesContainerNode"
    /\ \E d \in Range(kids[Len(nodes)]) :
          /\ nodes[d].inline
          /\ Len(kids[d]) = 1
          /\ kids[kids[d][1]] # <<>>
    /\ \E d \in Range(kids[Len(nodes)]) :
          /\ ~nodes[d].inline
          /\ kids[d] # <<>>

\* C25: after the collection pass, every reference id that referenced_by
\* reports for a definition that is a child of the footnotes container is
\* the ref_id of a FootnoteReference node of the final tree.
C25_BackReferencesPresent ==
    [][ op'[1] = "collect"
          => \A i \in DOMAIN Collected :
               \A r \in Range(referenced_by(PassMap, nodes'[Collected[i]].def_id)) :
                  \E n \in TreeNodes(kids') :
                     /\ nodes'[n].kind = "FootnoteReference"
                     /\ nodes'[n].ref_id = r ]_vars

\* C26: when the root extension set holds a FootnoteMap, the collection
\* pass leaves the root extension set as it found it, whether or not a
\* definition was collected.
C26_RootExtPutBack ==
    [][ (op'[1] = "collect" /\ "FootnoteMap" \in DOMAIN root_ext)
          => root_ext' = root_ext ]_vars

\* ---- SpecRule: one call of an inline rule

\* the span the rule call was given
RuleInput == SubSeq(state.src, state.pos + 1, state.pos_max)

\* C11: a successful LinkScanner.run or ImageScanner.run reports the length
\* of a construct that begins at the current position: the pattern matches
\* at the "[" the span starts with (for an image, at the "[" after the "!"),
\* the length is that of this match without trailing newlines, and the
\* position advanced by it is a character boundary.
C11_MatchAtCurrentPosition ==
    (op[1] \in {"link", "image"} /\ ret # None) =>
        LET at == IF op[1] = "link" THEN 1 ELSE 2
            m == MatchAt(RuleInput, at)
        IN /\ m # None
           /\ ret[2] = (at - 1) + Len(trim_end(SubSeq(RuleInput, at, m[1])))
           /\ is_char_boundary(state.src, state.pos + ret[2])

\* C15: an inline rule that succeeds at position pos reports a length n
\* with 0 < n <= pos_max - pos.
C15_LengthInWindow ==
    (phase = "ruled" /\ ret # None) =>
        /\ 0 < ret[2]
        /\ ret[2] <= state.pos_max - state.pos

\* an image that takes the whole window was matched
C15_Witness ==
    /\ op[1] = "image"
    /\ ret # None
    /\ ret[2] = state.pos_max - state.pos
    /\ state.pos_max = MaxLinkLen

\* the marker sequences a rule's text begins with, by the name of the rule
Trigger ==
    [link |-> {<<"[">>},
     image |-> {<<"!", "[">>},
     reference |-> {<<"[", "^">>},
     inline_footnote |-> {<<"^", "[">>},
     citation |-> {OPEN_CITATION},
     contact_info |-> {<<"<">> \o MAIL_PREFIX, <<"<">> \o PHONE_PREFIX},
     nl2br |-> {<<"nl">>},
     inline_math |-> {<<"$">>},
     display_math |-> {<<"$", "$">>}]

\* C21: when the text at the current position does not begin with the
\* marker sequence of the inline rule that is run, the rule returns no
\* match without a panic and leaves the cursor and bounds of the
\* InlineState, the root extension set (no FootnoteMap is created) and the
\* ids issued as they were.
C21_NoMarkerNoChange ==
    [][ (phase = "rule" /\ phase' = "ruled"
           /\ ~\E prefix \in Trigger[op'[1]] : starts_with(RuleInput, prefix)) =>
          /\ ret' = None
          /\ ~aborted'
          /\ state' = state
          /\ root_ext' = root_ext
          /\ issued' = issued
          /\ nodes' = nodes /\ kids' = kids ]_vars

\* the reference rule was run at a "[" that no "^" follows, in a document
\* that has no FootnoteMap
C21_Witness ==
    /\ phase = "ruled"
    /\ op[1] = "reference"
    /\ Len(RuleInput) >= 2
    /\ ~starts_with(RuleInput, <<"[", "^">>)
    /\ ret = None
    /\ "FootnoteMap" \notin DOMAIN root_ext

\* ---- SpecRender: threads calling render and tree on one parser

\* the message of the failure of call k of thread t
OwnMessage(t, k) == init_panic_hook(PanicHookInfo(t, k))[1]

\* the messages of the failures of tree calls made so far
TreeMessages ==
    UNION {{threads[t].results[k][2] :
               k \in {i \in DOMAIN threads[t].results :
                         threads[t].results[i][1] = "PanicException"}} :
           t \in DOMAIN threads}

\* C12: the error an aborted render call returns carries the message and
\* source location of that call's own failure, under any interleaving of
\* the threads: it is neither the generic fallback message nor the message
\* of another render call (the message of a failed tree call is let pass).
C12_OwnMessage ==
    \A t \in DOMAIN threads :
        (threads[t].pc = "idle" /\ threads[t].results # <<>>
           /\ threads[t].results[Len(threads[t].results)][1] = "Err")
        => \/ threads[t].results[Len(threads[t].results)][2] = OwnMessage(t, threads[t].call)
           \/ threads[t].results[Len(threads[t].results)][2] \in TreeMessages

\* the messages render calls have returned as errors so far
ErrMessages ==
    UNION {{threads[t].results[k][2] :
               k \in {i \in DOMAIN threads[t].results :
                         threads[t].results[i][1] = "Err"}} :
           t \in DOMAIN threads}

\* C20: the step in which an aborted render call returns its error leaves
\* LAST_PANIC empty, and the message it returns, when it is the message of a
\* failure and not the generic fallback, was not returned by any render
\* call before; the steps of a render call that completes normally (its
\* entry and its return of Ok) leave LAST_PANIC as it was.
C20_ReadAndCleared ==
    [][ /\ op'[1] = "err" =>
             /\ LAST_PANIC' = None
             /\ LET results == threads'[op'[2]].results
                    msg == results[Len(results)][2]
                IN msg # <<"Rust panic occurred">> => msg \notin ErrMessages
        /\ op'[1] \in {"render", "ok"} => LAST_PANIC' = LAST_PANIC ]_vars

\* a thread whose first render call aborted and returned its own message
\* made a second render call that aborted too, and the record is empty
C20_Witness ==
    \E t \in DOMAIN threads :
        /\ phase = "render"
        /\ Len(threads[t].results) = 2
        /\ threads[t].results[1] = <<"Err", OwnMessage(t, 1)>>
        /\ threads[t].results[2][1] = "Err"
        /\ LAST_PANIC = None

\* ---- SpecScan: the scan window around a call of InlineFootnoteScanner

\* C16: when check or run of InlineFootnoteScanner returns, with or without
\* a match, state.pos, state.pos_max and state.node are as on entry, the
\* nodes that existed keep their children, and after a match every token of
\* the body hangs under the synthesized FootnoteDefinition, the first child
\* of the returned node.
C16_ScanWindowRestored ==
    [][ (phase = "scan" /\ op'[1] \in {"check", "run"} /\ ~aborted') =>
          /\ state' = state
          /\ open' = open
          /\ SubSeq(nodes', 1, Len(nodes)) = nodes
          /\ \A n \in 1..Len(nodes) : kids'[n] = kids[n]
          /\ (op'[1] = "check" \/ ret' = None) => Len(nodes') = Len(nodes)
          /\ (op'[1] = "run" /\ ret' # None) =>
                LET new == (Len(nodes) + 1)..Len(nodes')
                    def_node == kids'[ret'[1]][1]
                IN /\ ret'[1] \in new
                   /\ nodes'[def_node].kind = "FootnoteDefinition"
                   /\ nodes'[def_node].inline
                   /\ \A n \in new \ {ret'[1]} :
                         \E p \in new : n \in Range(kids'[p])
                   /\ \A n \in new \ {ret'[1], def_node, kids'[ret'[1]][2]} :
                         \E p \in new \ {ret'[1]} : n \in Range(kids'[p]) ]_vars

\* run has matched after the start of the text and returned: the body is
\* under the definition, the current node has no child yet
C16_Witness ==
    /\ phase = "scanned"
    /\ op[1] = "run"
    /\ ~aborted
    /\ ret # None
    /\ state.pos > 0
    /\ open = <<2>>
    /\ kids[2] = <<>>
    /\ kids[kids[ret[1]][1]] # <<>>

\* C28: check agrees with run on every state: FenceScanner.check reports a
\* match exactly when FenceScanner.run returns a node, and
\* InlineFootnoteScanner.check returns Some(n) exactly when run returns
\* Some((node, n)) with the same n.
C28_CheckAgreesWithRun ==
    [][ /\ (phase = "blockrule" /\ op'[1] = "fence_check") =>
             ((ret' # None) <=> (FenceScanner_run(state) # None))
        /\ (phase = "scan" /\ op'[1] = "check") =>
             LET ran == run(Seen) IN
             /\ (ret' # None) <=> (ran.ret # None)
             /\ ret' # None => ret'[1] = ran.ret[2] ]_vars

\* ---- SpecBlock: one call of a block rule

\* the lines after the current one, up to the end of the block
RemainingLines == (state.line + 1)..(state.line_max - 1)

\* no remaining line closes the fence opened at the current line and no
\* remaining line has negative indent
NeverClosed ==
    /\ get_header(state) # None
    /\ \A n \in RemainingLines :
         /\ ~ClosesFence(state, n, get_header(state)[1].marker, get_header(state)[1].len)
         /\ line_indent(state, n) >= 0

\* C13: FenceScanner.run on a valid opening fence that no remaining line
\* closes returns a CodeFence whose content is all remaining lines of the
\* block and whose lines-consumed count is line_max - line.
C13_FenceAutoClosed ==
    (op[1] = "fence" /\ NeverClosed) =>
        /\ ret # None
        /\ ret[1].kind = "CodeFence"
        /\ ret[1].content = SubSeq(state.lines, state.line + 2, state.line_max)
        /\ ret[2] = state.line_max - state.line

\* an unclosed fence with lines after it was run
C13_Witness ==
    /\ op[1] = "fence"
    /\ NeverClosed
    /\ state.line_max - state.line = 2
    /\ state.line_max < Len(state.lines)
    /\ ret # None
    /\ ret[2] = 2

\* C14: a block rule that succeeds at line `line` reports a lines-consumed
\* count c with 1 <= c <= line_max - line.
C14_LinesConsumedInBlock ==
    (op[1] \in {"fence", "inkjet", "front_matter"} /\ ret # None) =>
        /\ 1 <= ret[2]
        /\ ret[2] <= state.line_max - state.line

\* each of the three rules has succeeded: here the front matter rule, by a
\* closing line that is the last line of the block
C14_Witness ==
    /\ op[1] = "front_matter"
    /\ ret # None
    /\ ret[2] = state.line_max
    /\ state.line_max < Len(state.lines)

\* the number of dashes line n starts with
Dashes(n) == MarkerRun(get_line(state, n), "-", 1)

C23_ClosingFenceSameLength ==
    (op[1] = "front_matter" /\ ret # None) =>
        LET closing == ret[2] - 1 IN
        /\ Dashes(closing) = Dashes(0)
        /\ \A n \in 1..(closing - 1) : Dashes(n) # Dashes(0)
        /\ ret[1].content = get_lines(state, 1, closing)

\* line n starts with the marker of the fence opened at the current line,
\* is indented less than max_indent, has a marker run at least as long as
\* the opening run and only spaces or tabs after it
ClosingLine(n) ==
    LET line == get_line(state, n)
        header == get_header(state)[1]
        len_end == MarkerRun(line, header.marker, 1)
    IN /\ starts_with(line, <<header.marker>>)
       /\ line_indent(state, n) < max_indent
       /\ len_end >= header.len
       /\ \A i \in (len_end + 1)..Len(line) : line[i] \in {" ", "tab"}

\* line n is not empty and is indented less than the block
LeavesBlock(n) == get_line(state, n) # <<>> /\ line_indent(state, n) < 0

\* the first of a set of lines
FirstOf(ns) == CHOOSE n \in ns : \A m \in ns : n <= m

\* C27 as stated: FenceScanner.run stops at the first remaining line that
\* starts with the opening marker, is indented less than max_indent, has a
\* marker run at least as long as the opening run and only spaces or tabs
\* after it; it reports that line and the lines before it as consumed and
\* takes the lines strictly between the opening and that line as content.
C27_ClosedAtFirstClosingLine ==
    (op[1] = "fence" /\ ret # None /\ \E n \in RemainingLines : ClosingLine(n)) =>
        LET next_line == FirstOf({n \in RemainingLines : ClosingLine(n)}) IN
        /\ ret[2] = next_line - state.line + 1
        /\ ret[1].content = get_lines(state, state.line + 1, next_line)

\* C27 amended: FenceScanner.run stops at the first remaining line that
\* either is not empty and has negative indent, or is such a closing line;
\* at a closing line it reports next_line - line + 1 lines, at a line with
\* negative indent next_line - line lines (the fence is closed by the end
\* of its parent), and the content is the lines strictly between the
\* opening line and the line it stopped at.
C27_ClosedAtFirstClosingLineInBlock ==
    (op[1] = "fence" /\ ret # None
       /\ \E n \in RemainingLines : ClosingLine(n) \/ LeavesBlock(n)) =>
        LET next_line == FirstOf({n \in RemainingLines : ClosingLine(n) \/ LeavesBlock(n)}) IN
        /\ ret[2] = next_line - state.line + (IF LeavesBlock(next_line) THEN 0 ELSE 1)
        /\ ret[1].content = get_lines(state, state.line + 1, next_line)

\* a fence of four backticks was closed by the second of two lines of
\* backticks, the first being too short
C27_Witness ==
    /\ op[1] = "fence"
    /\ state.line = 0
    /\ state.line_max = 3
    /\ get_line(state, 0) = <<"bt", "bt", "bt", "bt">>
    /\ ~ClosingLine(1) /\ get_line(state, 1) = <<"bt", "bt", "bt">>
    /\ line_indent(state, 1) = 0
    /\ ClosingLine(2)
    /\ ret # None
    /\ ret[2] = 3

\* the opening line holds a second fence: three marker characters in a row
\* after the opening run
FenceOnSameLine ==
    LET line == get_line(state, state.line)
        marker == line[1]
        len == MarkerRun(line, marker, 1)
    IN \E i \in (len + 1)..Len(line) : MarkerRun(line, marker, i) >= 3

\* C29: InkjetFenceScanner.run accepts the opening lines FenceScanner.run
\* accepts, backtick and tilde fences alike, except those that hold a
\* closing fence on the same line, and for a block it accepts it reports
\* the lines consumed and the content that FenceScanner reports.
C29_InkjetRefinesFence ==
    op[1] = "inkjet" =>
        LET fence == FenceScanner_run(state) IN
        /\ (ret # None) <=> (fence # None /\ ~FenceOnSameLine)
        /\ ret # None =>
             /\ ret[2] = fence[2]
             /\ ret[1].content = fence[1].content
             /\ ret[1].marker = fence[1].marker

\* ---- SpecEnable: plugins enabled on one parser

\* C19: enabling a plugin whose name _enable_str does not know returns the
\* error "Unknown plugin: <name>" and leaves the parser as it was: no rule,
\* no extension state and no plugin name is added.
C19_UnknownPluginNoChange ==
    [][ (op'[1] = "enable" /\ op'[2] \notin KnownNames) =>
          /\ ret' = <<"Err", <<"Unknown plugin: ", op'[2]>>>>
          /\ parser' = parser ]_vars

\* an unknown name was refused on a parser that has plugins enabled
C19_Witness ==
    /\ op = <<"enable", "bogus">>
    /\ ret[1] = "Err"
    /\ Len(parser.enabled_plugin_names) = 2
    /\ parser.rules # {}

\* ---- SpecSlug: slugs made by one Slugger

\* C24: between two resets Slugger.slug never returns a string it has
\* returned before; it returns the plain slug of its input when that slug
\* has not been returned, and otherwise base-i for the smallest i >= 1 for
\* which base-i has not been returned; reset leaves a Slugger equal to a
\* new one.
C24_SlugsUnique ==
    [][ /\ (phase = "slug" /\ Len(returned') = Len(returned) + 1) =>
             LET base == slug(op'[2])
                 result == returned'[Len(returned')]
                 seen == Range(returned)
             IN /\ result \notin seen
                /\ base \notin seen => result = base
                /\ base \in seen =>
                     \E i \in 1..(Len(returned) + 1) :
                        /\ result = format(base, i)
                        /\ \A j \in 1..(i - 1) : format(base, j) \in seen
        /\ (phase = "slug" /\ op' = <<"reset", <<>>>>) => slugger' = SluggerDefault ]_vars

\* the same heading twice and then a heading that is the second slug
C24_Witness ==
    /\ phase = "slug"
    /\ op = <<"slug", <<"a", "-", "1">>>>
    /\ returned = << <<"a">>, <<"a", "-", "1">>, <<"a", "-", "1", "-", "1">> >>

\* ---- SpecPreprocess: the citation markers of a source text

RECURSIVE MarkerStarts(_, _)
\* the indices, from i on and left to right, at which a marker (the open
\* bracket, one digit or more, the close bracket) starts in src
MarkerStarts(src, i) ==
    IF i > Len(src) THEN <<>>
    ELSE IF \E d \in 1..Len(src) :
              /\ i + 5 + d <= Len(src)
              /\ SubSeq(src, i, i + 2) = OPEN_CITATION
              /\ \A j \in (i + 3)..(i + 2 + d) : is_digit(src[j])
              /\ SubSeq(src, i + 3 + d, i + 5 + d) = CLOSE_CITATION
    THEN <<i>> \o MarkerStarts(src, i + 1)
    ELSE MarkerStarts(src, i + 1)

\* the index of the last byte of the marker that starts at i
MarkerStop(src, i) == (CHOOSE j \in i..Len(src) : src[j] = CLOSE_CITATION[1]) + 2

\* src with every marker cut down to its two brackets
OutsideMarkers(src) ==
    LET starts == MarkerStarts(src, 1) IN
    SelectSeq([i \in DOMAIN src |->
                 IF \E k \in DOMAIN starts :
                      i >= starts[k] + 3 /\ i <= MarkerStop(src, starts[k]) - 3
                 THEN "" ELSE src[i]],
              LAMBDA c : c # "")

\* C30: in the text reenumerate_citations returns, the k-th marker from the
\* left (counting from 0) reads k in decimal, the text has as many markers
\* as its input and is the input outside the digits of the markers;
\* applied to its own result it returns that result; and preprocess
\* returns the renumbered text when "citation" is among the enabled plugin
\* names and the source text itself when it is not.
C30_CitationsRenumbered ==
    [][ /\ op'[1] = "reenumerate_citations" =>
             LET input == IF cur = 0 THEN state.src ELSE ret
                 starts == MarkerStarts(ret', 1)
             IN /\ Len(starts) = Len(MarkerStarts(input, 1))
                /\ \A k \in DOMAIN starts :
                      SubSeq(ret', starts[k] + 3, MarkerStop(ret', starts[k]) - 3)
                        = to_string(k - 1)
                /\ OutsideMarkers(ret') = OutsideMarkers(input)
                /\ cur >= 1 => ret' = ret
        /\ op'[1] = "preprocess" =>
             LET starts == MarkerStarts(ret', 1) IN
             IF "citation" \in Range(parser.enabled_plugin_names)
             THEN /\ OutsideMarkers(ret') = OutsideMarkers(state.src)
                  /\ \A k \in DOMAIN starts :
                        SubSeq(ret', starts[k] + 3, MarkerStop(ret', starts[k]) - 3)
                          = to_string(k - 1)
             ELSE ret' = state.src ]_vars

\* a text with two markers that both read 1 and text between them was
\* renumbered twice
C30_Witness ==
    /\ phase = "reenumerated"
    /\ cur = 2
    /\ Len(MarkerStarts(state.src, 1)) = 2
    /\ MarkerStarts(state.src, 1)[2] > 6
    /\ ret # state.src
    /\ OutsideMarkers(state.src) # OPEN_CITATION \o CLOSE_CITATION \o OPEN_CITATION \o CLOSE_CITATION

====
